---- MODULE Spec2Model ----
(***************************************************************************)
(* Statement ingestion pipeline of fins (backend/app):                     *)
(*   api/chat.py                     upload_statement, get_processing_status*)
(*                                   confirm_account and the two background *)
(*                                   tasks                                  *)
(*   services/statement_processor.py process_statement,                     *)
(*                                   continue_after_confirmation            *)
(*   services/sync_job_service.py    the persisted job record               *)
(*   services/transaction_service.py duplicate check and batch save         *)
(*                                                                         *)
(* A handler is cut into steps at the points where it waits for the job    *)
(* store, so that requests and background tasks interleave as they do on   *)
(* the event loop.  Every service call is taken to return the value its    *)
(* callee computes (object construction and ORM dispatch are not part of   *)
(* the model).                                                             *)
(***************************************************************************)
EXTENDS Integers, Sequences, FiniteSets, TLC

\* ------------------------------------------------------------------ bounds
MaxJobs == 2
MaxConfirms == 2
\* Rows in the transactions table, and drafts in a batch, when
\* check_duplicates is exercised on its own.
MaxStoreRows == 2
MaxBatch == 2
\* Rows in the categorization_rules table, and transactions handed to
\* categorize_batch.
MaxRules == 1
MaxUncategorized == 2
\* Transactions handed to categorize_transactions_batch, and how many of
\* them go into one prompt (30 in ai_service.py, scaled down).
MaxCategorized == 4
batch_size == 2
\* Accounts of the user handed to suggest_account_match.
MaxCandidates == 2
\* Data rows of a CSV file handed to parse_csv_file.
MaxCsvRows == 2
\* Uploads, and calls of process_statement_background for a job that already
\* had one, when the first half is called once more.
MaxRerunJobs == 1
MaxReruns == 1
\* Uploads when the pipeline is checked for progress.
MaxLiveJobs == 1
\* File paths handed to update_job when it is exercised on its own.
MaxFiles == 2

\* --------------------------------------------------------------- constants
\* ProcessingStage
UPLOADING == "uploading"
PARSING == "parsing"
ANALYZING == "analyzing"
MATCHING_ACCOUNT == "matching_account"
AWAITING_CONFIRMATION == "awaiting_confirmation"
EXTRACTING_TRANSACTIONS == "extracting_transactions"
CHECKING_DUPLICATES == "checking_duplicates"
SAVING == "saving"
COMPLETED == "completed"
FAILED == "failed"

\* Position of a stage in the forward order of the pipeline.
StageOrder(s) ==
    CASE s = UPLOADING -> 0
      [] s = PARSING -> 1
      [] s = ANALYZING -> 2
      [] s = MATCHING_ACCOUNT -> 3
      [] s = AWAITING_CONFIRMATION -> 4
      [] s = EXTRACTING_TRANSACTIONS -> 5
      [] s = CHECKING_DUPLICATES -> 6
      [] s = SAVING -> 7
      [] s = COMPLETED -> 8
      [] s = FAILED -> 9

\* Python's None and an optional value that is present.
None == <<>>
Some(x) == <<x>>

\* Truth value of an optional string: None and "" are both false.
TruthyStr(o) == o # None /\ o[1] # ""

Users == {"u1", "u2"}

\* The users who upload statements.
Uploaders == {"u1"}

\* str(e) of the exceptions the completion service and the transaction
\* commit can raise: with and without text.
ErrMsgs == {"", "boom"}

\* str(e) of the exceptions of the other collaborators (account matching,
\* document extraction, the job store): with text.
TextErrMsgs == {"boom"}

\* ------------------------------------------------------------ descriptions
\* A description is a sequence of characters; 1, 2 are 'a', 'b' and 11, 12
\* are 'A', 'B'.
lower(s) == [i \in 1..Len(s) |-> IF s[i] > 10 THEN s[i] - 10 ELSE s[i]]

\* A substring test that is false for the empty string.
contains_nonempty(b, a) ==
    /\ a # <<>>
    /\ \E k \in 0..(Len(b) - Len(a)) : \A i \in 1..Len(a) : b[k + i] = a[i]

\* Python's `a in b` for strings.
contains(b, a) ==
    \E k \in 0..(Len(b) - Len(a)) : \A i \in 1..Len(a) : b[k + i] = a[i]

\* A row as parse_csv_file builds it: it has no "category" key (None here).
Draft(d, amt, desc, merch) ==
    [date |-> d, amount |-> amt, description |-> desc, merchant_name |-> merch,
     category |-> None]

\* Rows of the statements that get uploaded: two equal rows in one batch, a
\* row that matches them by date +1 and case-insensitive containment, and
\* rows that match nothing.
RowsTwice == << Draft(1, 5, <<1, 2>>, <<1>>), Draft(1, 5, <<1, 2>>, <<1>>) >>
RowsNear == << Draft(2, 5, <<11>>, <<11>>) >>
RowsOther == << Draft(4, 5, <<1, 2>>, <<1>>), Draft(1, 7, <<2>>, <<2>>) >>
FileRows == {RowsTwice, RowsNear, RowsOther}

\* A transaction of account 1 that is in the table before any upload; job 0
\* stands for whatever wrote it.
EarlierRow ==
    [account_id |-> 1, user_id |-> "u1", date |-> 1, amount |-> 5,
     description |-> <<1, 2, 1>>, merchant_name |-> <<1>>,
     category |-> Some("Food"), job |-> 0]

\* What can be uploaded: type, whether it passes the size check, whether the
\* parser accepts it, and its rows.
File(t, sz, ok, rows) ==
    [file_type |-> t, size_ok |-> sz, parseable |-> ok, rows |-> rows]
UploadFiles ==
    { File("csv", TRUE, TRUE, RowsTwice), File("csv", TRUE, TRUE, RowsNear),
      File("pdf", TRUE, TRUE, RowsOther),
      File("csv", TRUE, FALSE, <<>>), File("exe", TRUE, TRUE, <<>>),
      File("pdf", FALSE, TRUE, <<>>) }

\* Bodies of confirm-account requests: an account of the caller, an account
\* of another user, a new account with and without a name, and an id (0) that
\* no account has.
Confirm(acct, new, name) ==
    [account_id |-> acct, create_new_account |-> new, new_account_name |-> name]
ConfirmRequests ==
    { Confirm(Some(1), FALSE, None), Confirm(Some(2), FALSE, None),
      Confirm(None, TRUE, Some("New")), Confirm(None, TRUE, None),
      Confirm(Some(0), FALSE, None) }

VARIABLES
    jobs,       \* sync_jobs table: job id -> record
    tasks,      \* process_statement_background task of each job
    conts,      \* confirm_account requests past the stage guard, and their continue_processing tasks
    disk,       \* upload directory: the file of each job, None once deleted
    cleaned,    \* paths cleanup_uploaded_file was called with
    accounts,   \* accounts table: account id -> record
    txns,       \* transactions table, in insertion order
    dupcheck,   \* a TransactionService.check_duplicates call: arguments and result
    rules,      \* categorization_rules table
    flow,       \* a run of the categorization tasks: the batch, what was sent to
                \* the completion service, the results
    aicall,     \* a categorize_transactions_batch call: arguments, what the
                \* completion service answered, result
    matchcall,  \* a suggest_account_match call: arguments, what the completion
                \* service answered, result
    parsecall,  \* a parse_csv_file call: the file, result
    reruns      \* calls of process_statement_background made for a job that
                \* already had one

\* The state of the ingestion pipeline, and of the services exercised on
\* their own.
pipeline == <<jobs, tasks, conts, disk, cleaned, accounts, txns>>
units == <<dupcheck, rules, flow, aicall, matchcall, parsecall, reruns>>
vars == <<jobs, tasks, conts, disk, cleaned, accounts, txns, dupcheck, rules, flow,
          aicall, matchcall, parsecall, reruns>>

JobIds == 1..Len(jobs)
ContIds == 1..Len(conts)

\* ---------------------------------------------------------------- job store
MetaKeys == {"statement_metadata", "account_match", "parsed_content", "file_path"}

\* A payload dict over MetaKeys; a key that is not in the dict is None.
EmptyMeta == [k \in MetaKeys |-> None]

\* SyncJobService.create_job
create_job(user_id) ==
    [user_id |-> user_id, status |-> "pending", stage |-> UPLOADING,
     progress |-> 0, error_message |-> None, meta |-> EmptyMeta,
     completed_at |-> FALSE]

\* update_job storing the metadata it is given in place of the payload of
\* the job, also when it is given none.
update_job_replacing_meta(job, status, stage, progress, error_message, metadata) ==
    [job EXCEPT
        !.status = IF TruthyStr(status) THEN status[1] ELSE @,
        !.stage = IF TruthyStr(stage) THEN stage[1] ELSE @,
        !.progress = IF progress # None THEN progress[1] ELSE @,
        !.error_message = IF TruthyStr(error_message) THEN error_message ELSE @,
        !.meta = metadata,
        !.completed_at = IF status \in {Some(COMPLETED), Some(FAILED)} THEN TRUE ELSE @]

\* SyncJobService.update_job on a job that exists; progress is None or
\* Some(percentage), metadata is a payload dict.
update_job(job, status, stage, progress, error_message, metadata) ==
    [job EXCEPT
        !.status = IF TruthyStr(status) THEN status[1] ELSE @,
        !.stage = IF TruthyStr(stage) THEN stage[1] ELSE @,
        !.progress = IF progress # None THEN progress[1] ELSE @,
        !.error_message = IF TruthyStr(error_message) THEN error_message ELSE @,
        !.meta = IF metadata # EmptyMeta
                 THEN [k \in MetaKeys |-> IF metadata[k] # None THEN metadata[k] ELSE @[k]]
                 ELSE @,
        !.completed_at = IF status \in {Some(COMPLETED), Some(FAILED)} THEN TRUE ELSE @]

\* update_job storing every argument as it is given, empty ones too, on the
\* first job when the id is unknown.
update_job_by_id_overwriting(table, job_id, status, stage, progress, error_message, metadata) ==
    LET id == IF job_id \in DOMAIN table THEN job_id ELSE 1
    IN [table EXCEPT ![id] =
           [@ EXCEPT !.status = IF status # None THEN status[1] ELSE "",
                     !.stage = IF stage # None THEN stage[1] ELSE "",
                     !.progress = IF progress # None THEN progress[1] ELSE 0,
                     !.error_message = error_message,
                     !.meta = metadata,
                     !.completed_at = TRUE]]

\* SyncJobService.update_job from its lookup on: a job id that is not in
\* the table returns None and nothing is written.
update_job_by_id(table, job_id, status, stage, progress, error_message, metadata) ==
    IF job_id \notin DOMAIN table THEN table
    ELSE [table EXCEPT ![job_id] =
             update_job(@, status, stage, progress, error_message, metadata)]

\* get_job without the owner filter: the job of the id, whoever asks.
get_job_any_user(job_id, user_id) ==
    IF job_id \in JobIds THEN Some(jobs[job_id]) ELSE None

\* SyncJobService.get_job with the owner filter
get_job(job_id, user_id) ==
    IF job_id \in JobIds /\ jobs[job_id].user_id = user_id
    THEN Some(jobs[job_id]) ELSE None

\* ProcessingStatus.__init__
ProcessingStatus ==
    [stage |-> UPLOADING, progress |-> 0, error |-> None, metadata |-> EmptyMeta]

\* ProcessingStatus.update
status_update(st, stage, progress) ==
    [st EXCEPT !.stage = stage, !.progress = progress]

\* ProcessingStatus.set_error
set_error(st, error) ==
    [st EXCEPT !.stage = FAILED, !.error = Some(error)]

\* ---------------------------------------------------------------- upload
\* save_uploaded_file: validate_file_type and validate_file_size raise a 400.
upload_response(file) ==
    IF file.file_type \notin {"csv", "pdf"} \/ ~file.size_ok THEN 400 ELSE 200

\* upload_statement creating the job before save_uploaded_file validates the
\* file: a rejected upload leaves a job record, without file or task.
upload_statement_job_first(user, file) ==
    /\ Len(jobs) < MaxJobs
    /\ jobs' = Append(jobs, create_job(user))
    /\ IF upload_response(file) # 200
       THEN /\ disk' = Append(disk, None)
            /\ tasks' = Append(tasks, [pc |-> "done", status |-> ProcessingStatus])
       ELSE /\ disk' = Append(disk, Some(file))
            /\ tasks' = Append(tasks, [pc |-> "process", status |-> ProcessingStatus])
    /\ UNCHANGED <<conts, cleaned, accounts, txns>>

\* upload_statement: validate and save the file, create the job, start the
\* background task. A rejected upload changes nothing.
upload_statement(user, file) ==
    /\ Len(jobs) < MaxJobs
    /\ IF upload_response(file) # 200
       THEN UNCHANGED vars
       ELSE /\ jobs' = Append(jobs, create_job(user))
            /\ disk' = Append(disk, Some(file))
            /\ tasks' = Append(tasks, [pc |-> "process", status |-> ProcessingStatus])
            /\ UNCHANGED <<conts, cleaned, accounts, txns>>

\* ------------------------------------------------- process_statement (first half)
\* StatementProcessor._parse_file: the parsed content, or an error result.
parse_file(file) ==
    IF ~file.parseable
    THEN [error |-> Some("Failed to parse")]
    ELSE [error |-> None, format_type |-> file.file_type,
          transactions |-> IF file.file_type = "csv" THEN file.rows ELSE <<>>,
          content |-> IF file.file_type = "csv" THEN <<>> ELSE file.rows]

\* What the collaborators of the first half answer: analyze_statement_structure
\* gives the metadata of the completion service or its fallback, or raises;
\* suggest_account_match gives a suggestion or raises.
Raise(msg) == [raise |-> Some(msg)]
Return(v) == [raise |-> None, value |-> v]
AnalyzeOutcomes == {Return("parsed")} \cup {Raise(m) : m \in ErrMsgs}
MatchOutcomes == {Return("suggestion")} \cup {Raise(m) : m \in TextErrMsgs}

\* process_statement falling through the suspension into stage 5.
process_statement_no_pause(file, file_path, analyzed, matched) ==
    LET s1 == status_update(ProcessingStatus, PARSING, 10)
        parsed_content == parse_file(file)
        s2 == status_update(s1, ANALYZING, 30)
        s3 == status_update(s2, MATCHING_ACCOUNT, 45)
        s5 == status_update(s3, EXTRACTING_TRANSACTIONS, 65)
    IN  IF parsed_content.error # None
        THEN [status |-> set_error(s1, parsed_content.error[1]), cleanup |-> FALSE]
        ELSE IF analyzed.raise # None
        THEN [status |-> set_error(s2, analyzed.raise[1]), cleanup |-> TRUE]
        ELSE IF matched.raise # None
        THEN [status |-> set_error(s3, matched.raise[1]), cleanup |-> TRUE]
        ELSE [status |-> [s5 EXCEPT !.metadata =
                              [statement_metadata |-> Some(analyzed.value),
                               account_match |-> Some(matched.value),
                               parsed_content |-> Some(parsed_content),
                               file_path |-> Some(file_path)]],
              cleanup |-> FALSE]

\* StatementProcessor.process_statement: the final status, and whether
\* _cleanup was called. An error result of the parser returns at once; an
\* exception of a later stage goes through the except branch.
process_statement(file, file_path, analyzed, matched) ==
    LET s1 == status_update(ProcessingStatus, PARSING, 10)
        parsed_content == parse_file(file)
        s2 == status_update(s1, ANALYZING, 30)
        s3 == status_update(s2, MATCHING_ACCOUNT, 45)
        s4 == status_update(s3, AWAITING_CONFIRMATION, 60)
    IN  IF parsed_content.error # None
        THEN [status |-> set_error(s1, parsed_content.error[1]), cleanup |-> FALSE]
        ELSE IF analyzed.raise # None
        THEN [status |-> set_error(s2, analyzed.raise[1]), cleanup |-> TRUE]
        ELSE IF matched.raise # None
        THEN [status |-> set_error(s3, matched.raise[1]), cleanup |-> TRUE]
        ELSE [status |-> [s4 EXCEPT !.metadata =
                              [statement_metadata |-> Some(analyzed.value),
                               account_match |-> Some(matched.value),
                               parsed_content |-> Some(parsed_content),
                               file_path |-> Some(file_path)]],
              cleanup |-> FALSE]

\* _cleanup returning before it calls cleanup_uploaded_file.
cleanup_skipped(file_path) ==
    UNCHANGED <<disk, cleaned>>

\* StatementProcessor._cleanup: a missing path is ignored.
cleanup(file_path) ==
    IF file_path # None
    THEN /\ disk' = [disk EXCEPT ![file_path[1]] = None]
         /\ cleaned' = cleaned \cup {file_path[1]}
    ELSE UNCHANGED <<disk, cleaned>>

\* What _parse_file finds at a path whose file has been deleted: opening it
\* raises, which gives the error result.
DeletedFile == File("csv", TRUE, FALSE, <<>>)

\* process_statement_background up to the return of process_statement.
bg_process(j) ==
    /\ tasks[j].pc = "process"
    /\ \E analyzed \in AnalyzeOutcomes, matched \in MatchOutcomes :
         LET r == process_statement(IF disk[j] # None THEN disk[j][1] ELSE DeletedFile,
                                    j, analyzed, matched)
         IN /\ tasks' = [tasks EXCEPT ![j] = [pc |-> "writeback", status |-> r.status]]
            /\ IF r.cleanup THEN cleanup(Some(j)) ELSE UNCHANGED <<disk, cleaned>>
    /\ UNCHANGED <<jobs, conts, accounts, txns>>

\* process_statement_background with an update_job that does not select the
\* job by its id: the write lands on every job.
bg_writeback_every_job(j) ==
    /\ tasks[j].pc = "writeback"
    /\ LET st == tasks[j].status
       IN \/ jobs' = [i \in JobIds |->
                 update_job(jobs[i], Some(st.stage), Some(st.stage), Some(st.progress),
                            st.error, st.metadata)]
          \/ \E msg \in TextErrMsgs :
                 jobs' = [i \in JobIds |->
                     update_job(jobs[i], Some(FAILED), Some(FAILED), Some(0), Some(msg),
                                EmptyMeta)]
    /\ tasks' = [tasks EXCEPT ![j] = [pc |-> "done", status |-> ProcessingStatus]]
    /\ UNCHANGED <<conts, disk, cleaned, accounts, txns>>

\* process_statement_background after process_statement returned: the result
\* is written to the job; if that write raises, the except branch writes a
\* failed job.
bg_writeback(j) ==
    /\ tasks[j].pc = "writeback"
    /\ LET st == tasks[j].status
       IN \/ jobs' = [jobs EXCEPT ![j] =
                 update_job(@, Some(st.stage), Some(st.stage), Some(st.progress),
                            st.error, st.metadata)]
          \/ \E msg \in TextErrMsgs :
                 jobs' = [jobs EXCEPT ![j] =
                     update_job(@, Some(FAILED), Some(FAILED), Some(0), Some(msg), EmptyMeta)]
    /\ tasks' = [tasks EXCEPT ![j] = [pc |-> "done", status |-> ProcessingStatus]]
    /\ UNCHANGED <<conts, disk, cleaned, accounts, txns>>

\* -------------------------------------------------------------- status poll
\* get_processing_status: 404 for a job the caller does not own, else the
\* fields of the job. Nothing is written.
status_response(job_id, user) ==
    LET job == get_job(job_id, user)
    IN IF job = None THEN [code |-> 404]
       ELSE [code |-> 200, current_stage |-> job[1].stage, status |-> job[1].status,
             progress |-> job[1].progress, error |-> job[1].error_message,
             account_match |-> job[1].meta["account_match"],
             statement_metadata |-> job[1].meta["statement_metadata"]]

\* get_processing_status expiring a job it finds waiting for confirmation.
get_processing_status_expiring(job_id, user) ==
    /\ status_response(job_id, user).code \in {200, 404}
    /\ jobs' = IF status_response(job_id, user).code = 200
                  /\ jobs[job_id].stage = AWAITING_CONFIRMATION
               THEN [jobs EXCEPT ![job_id] =
                        update_job(@, Some(FAILED), Some(FAILED), None,
                                   Some("confirmation timed out"), EmptyMeta)]
               ELSE jobs
    /\ UNCHANGED <<tasks, conts, disk, cleaned, accounts, txns>>

get_processing_status(job_id, user) ==
    /\ status_response(job_id, user).code \in {200, 404}
    /\ UNCHANGED vars

\* ------------------------------------------------------- transaction store
\* The query of _is_duplicate with the date compared for equality only.
existing_rows_same_day(store, account_id, txn) ==
    SelectSeq(store, LAMBDA e :
        /\ Some(e.account_id) = account_id
        /\ e.date = txn.date
        /\ e.amount = txn.amount)

\* The rows _is_duplicate queries: same account, date within a day, same amount.
existing_rows(store, account_id, txn) ==
    SelectSeq(store, LAMBDA e :
        /\ Some(e.account_id) = account_id
        /\ e.date >= txn.date - 1
        /\ e.date <= txn.date + 1
        /\ e.amount = txn.amount)

\* The loop of _is_duplicate looking for the persisted description inside
\* the draft's only, not for the draft's inside the persisted one.
RECURSIVE similar_from_one_way(_, _, _, _)
similar_from_one_way(existing, i, description, merchant_name) ==
    IF i > Len(existing) THEN FALSE
    ELSE LET e == existing[i]
         IN IF \/ lower(e.description) = description
               \/ /\ merchant_name # <<>>
                  /\ e.merchant_name # <<>>
                  /\ lower(e.merchant_name) = merchant_name
            THEN TRUE
            ELSE IF contains(description, lower(e.description))
            THEN TRUE
            ELSE similar_from_one_way(existing, i + 1, description, merchant_name)

\* The loop of _is_duplicate over the queried rows, from row i on.
RECURSIVE similar_from(_, _, _, _)
similar_from(existing, i, description, merchant_name) ==
    IF i > Len(existing) THEN FALSE
    ELSE LET e == existing[i]
         IN IF \/ lower(e.description) = description
               \/ /\ merchant_name # <<>>
                  /\ e.merchant_name # <<>>
                  /\ lower(e.merchant_name) = merchant_name
            THEN TRUE
            ELSE IF \/ contains(lower(e.description), description)
                    \/ contains(description, lower(e.description))
            THEN TRUE
            ELSE similar_from(existing, i + 1, description, merchant_name)

\* _is_duplicate comparing the draft's texts as they were written.
is_duplicate_as_written(store, account_id, txn) ==
    similar_from(existing_rows(store, account_id, txn), 1,
                 txn.description, txn.merchant_name)

\* TransactionService._is_duplicate
is_duplicate(store, account_id, txn) ==
    similar_from(existing_rows(store, account_id, txn), 1,
                 lower(txn.description), lower(txn.merchant_name))

\* The elements of t, from index i on, whose mark in f is b, in order.
RECURSIVE Kept(_, _, _, _)
Kept(t, f, b, i) ==
    IF i > Len(t) THEN <<>>
    ELSE (IF f[i] = b THEN <<t[i]>> ELSE <<>>) \o Kept(t, f, b, i + 1)

\* check_duplicates also treating a draft as a duplicate when an equal draft
\* comes earlier in the batch.
check_duplicates_within_batch(store, account_id, transactions) ==
    LET dup == [i \in 1..Len(transactions) |->
                   \/ is_duplicate(store, account_id, transactions[i])
                   \/ \E j \in 1..(i - 1) : transactions[j] = transactions[i]]
    IN [duplicates |-> Kept(transactions, dup, TRUE, 1),
        new |-> Kept(transactions, dup, FALSE, 1)]

\* TransactionService.check_duplicates
check_duplicates(store, account_id, transactions) ==
    [duplicates |-> SelectSeq(transactions, LAMBDA t : is_duplicate(store, account_id, t)),
     new |-> SelectSeq(transactions, LAMBDA t : ~is_duplicate(store, account_id, t))]

\* The rows save_transactions adds to its session, from draft i on.
RECURSIVE session_rows(_, _, _, _, _)
session_rows(account_id, user_id, job_id, transactions, i) ==
    IF i > Len(transactions) THEN <<>>
    ELSE << [account_id |-> account_id, user_id |-> user_id,
             date |-> transactions[i].date, amount |-> transactions[i].amount,
             description |-> transactions[i].description,
             merchant_name |-> transactions[i].merchant_name,
             category |-> transactions[i].category,
             job |-> job_id] >>
         \o session_rows(account_id, user_id, job_id, transactions, i + 1)

\* save_transactions committing row by row: a failure after the first row
\* leaves that row in the table.
save_transactions_per_row(store, account_id, user_id, job_id, transactions, commit_ok) ==
    IF transactions = <<>> THEN store
    ELSE IF commit_ok
    THEN store \o session_rows(account_id, user_id, job_id, transactions, 1)
    ELSE store \o session_rows(account_id, user_id, job_id, <<transactions[1]>>, 1)

\* TransactionService.save_transactions: the table after the call. All rows
\* are committed at once; a commit that fails leaves the table as it was.
\* job_id is not a column: it records which job wrote the row.
save_transactions(store, account_id, user_id, job_id, transactions, commit_ok) ==
    IF transactions = <<>> THEN store
    ELSE IF commit_ok
    THEN store \o session_rows(account_id, user_id, job_id, transactions, 1)
    ELSE store

\* --------------------------------------------- check_duplicates on its own
\* x is an element of the sequence s.
InSeq(x, s) == \E i \in 1..Len(s) : s[i] = x

\* Sequences over S of length at most n.
SeqsUpTo(S, n) == UNION {[1..k -> S] : k \in 0..n}

\* Drafts and persisted rows for the duplicate check. Rows are dated 2 and
\* amount to 5; drafts are dated a day before, the same day, a day after and
\* two days after, with the same and another amount. Descriptions: rows "ab", "B";
\* drafts "AB", "a", "c", "d", "". Merchants: rows none, "c"; drafts none, "C".
DupDrafts ==
    {Draft(d, amt, desc, merch) :
        d \in {1, 2, 3, 4}, amt \in {5, 7},
        desc \in {<<11, 12>>, <<1>>, <<3>>, <<4>>, <<>>}, merch \in {<<>>, <<13>>}}
StoreRows ==
    {[account_id |-> a, user_id |-> IF a = 1 THEN "u1" ELSE "u2", date |-> 2,
      amount |-> 5, description |-> desc, merchant_name |-> merch,
      category |-> None, job |-> 0] :
        a \in {1, 2}, desc \in {<<1, 2>>, <<12>>}, merch \in {<<>>, <<3>>}}

\* No run of the categorization tasks.
NoRun == [pc |-> "idle", batch |-> <<>>, sent |-> None, results |-> <<>>]

\* No call of categorize_transactions_batch.
NoAiCall == [transactions |-> <<>>, answers |-> <<>>, result |-> None]

\* No call of suggest_account_match.
NoMatchCall == [statement_metadata |-> <<>>, user_accounts |-> <<>>, answer |-> None,
                result |-> None]

\* No call of parse_csv_file.
NoParseCall == [file |-> None, result |-> None]

\* No call.
NoCall == [account_id |-> None, transactions |-> <<>>, result |-> None]

\* A caller of check_duplicates: the call is made for account 1 with a batch
\* of drafts, and its result is kept.
check_duplicates_call ==
    /\ dupcheck.result = None
    /\ dupcheck' = [dupcheck EXCEPT !.result =
           Some(check_duplicates(txns, dupcheck.account_id, dupcheck.transactions))]
    /\ UNCHANGED <<pipeline, rules, flow, aicall, matchcall, parsecall, reruns>>

InitDup ==
    /\ jobs = <<>>
    /\ tasks = <<>>
    /\ conts = <<>>
    /\ disk = <<>>
    /\ cleaned = {}
    /\ accounts = << [user_id |-> "u1"], [user_id |-> "u2"] >>
    /\ txns \in SeqsUpTo(StoreRows, MaxStoreRows)
    /\ dupcheck \in {[account_id |-> Some(1), transactions |-> b, result |-> None] :
                        b \in SeqsUpTo(DupDrafts, MaxBatch)}
    /\ rules = <<>>
    /\ flow = NoRun
    /\ aicall = NoAiCall
    /\ matchcall = NoMatchCall
    /\ parsecall = NoParseCall
    /\ reruns = 0

NextDup == check_duplicates_call

DupSpec == InitDup /\ [][NextDup]_vars

\* ------------------------------------------------------------ confirmation
\* The checks of confirm_account without the stage guard.
confirm_response_unguarded(job_id, user) ==
    IF get_job(job_id, user) = None THEN 404 ELSE 200

\* The checks of confirm_account: 404 for a job the caller does not own, 400
\* unless the job awaits confirmation.
confirm_response(job_id, user) ==
    LET job == get_job(job_id, user)
    IN IF job = None THEN 404
       ELSE IF job[1].stage # AWAITING_CONFIRMATION THEN 400
       ELSE 200

\* A continue_processing closure: the request it captured and the locals of
\* continue_after_confirmation.
Continuation(job_id, pc, account_id, create_new_account, new_account_data) ==
    [job |-> job_id, pc |-> pc, account_id |-> account_id,
     create_new_account |-> create_new_account,
     new_account_data |-> new_account_data,
     status |-> ProcessingStatus, transactions |-> <<>>, new_transactions |-> <<>>,
     duplicates |-> <<>>]

\* confirm_account up to its update of the job: a rejected request changes
\* nothing; an accepted one has read the job and prepared the account data.
confirm_account(job_id, user, req) ==
    /\ Len(conts) < MaxConfirms
    /\ IF confirm_response(job_id, user) # 200
       THEN UNCHANGED vars
       ELSE /\ conts' = Append(conts,
                   Continuation(job_id, "confirmed", req.account_id,
                       req.create_new_account,
                       IF req.create_new_account /\ TruthyStr(req.new_account_name)
                       THEN Some([user_id |-> user]) ELSE None))
            /\ UNCHANGED <<jobs, tasks, disk, cleaned, accounts, txns>>

\* confirm_account from its update of the job on: the job is set to resume
\* and continue_processing is scheduled.
confirm_resume(k) ==
    /\ conts[k].pc = "confirmed"
    /\ jobs' = [jobs EXCEPT ![conts[k].job] =
           update_job(@, Some("running"), Some(EXTRACTING_TRANSACTIONS), Some(65),
                      None, EmptyMeta)]
    /\ conts' = [conts EXCEPT ![k].pc = "load"]
    /\ UNCHANGED <<tasks, disk, cleaned, accounts, txns>>

\* ------------------------------------- continue_after_confirmation (second half)
\* StatementProcessor._get_job_status
get_job_status(job) ==
    [stage |-> job.stage, progress |-> job.progress, error |-> job.error_message,
     metadata |-> job.meta]

cont_load(k) ==
    /\ conts[k].pc = "load"
    /\ conts' = [conts EXCEPT ![k].pc = "check",
                              ![k].status = get_job_status(jobs[conts[k].job])]
    /\ UNCHANGED <<jobs, tasks, disk, cleaned, accounts, txns>>

\* The except branch of continue_after_confirmation.
cont_fail(k, st, msg) ==
    /\ conts' = [conts EXCEPT ![k].pc = "writeback", ![k].status = set_error(st, msg)]
    /\ cleanup(st.metadata["file_path"])

\* The rows of a document as the completion service answers them for the
\* prompt of extract_transactions: each with a suggested category.
Suggested(rows) == [i \in 1..Len(rows) |-> [rows[i] EXCEPT !.category = Some("Food")]]

\* What extract_transactions answers for a document: the rows the completion
\* service read, no rows when its answer does not parse, or the call raises.
ExtractOutcomes(parsed_content) ==
    {Return(Suggested(parsed_content.content)), Return(<<>>)}
        \cup {Raise(m) : m \in TextErrMsgs}

\* Account creation, stage 5 and stage 6.
cont_check(k) ==
    /\ conts[k].pc = "check"
    /\ LET c == conts[k]
           create == c.create_new_account /\ c.new_account_data # None
           confirmed_account_id == IF create THEN Some(Len(accounts) + 1) ELSE c.account_id
           s5 == status_update(c.status, EXTRACTING_TRANSACTIONS, 65)
           parsed_content == c.status.metadata["parsed_content"]
       IN /\ accounts' = IF create
                         THEN Append(accounts, [user_id |-> c.new_account_data[1].user_id])
                         ELSE accounts
          /\ IF parsed_content = None
             THEN cont_fail(k, s5, "'parsed_content'")
             ELSE \E extracted \in IF parsed_content[1].format_type = "csv"
                                   THEN {Return(parsed_content[1].transactions)}
                                   ELSE ExtractOutcomes(parsed_content[1]) :
                    IF extracted.raise # None
                    THEN cont_fail(k, s5, extracted.raise[1])
                    ELSE /\ conts' = [conts EXCEPT
                                ![k].pc = "save",
                                ![k].account_id = confirmed_account_id,
                                ![k].status = status_update(s5, SAVING, 90),
                                ![k].transactions = extracted.value,
                                ![k].new_transactions =
                                    check_duplicates(txns, confirmed_account_id,
                                                     extracted.value).new,
                                ![k].duplicates =
                                    check_duplicates(txns, confirmed_account_id,
                                                     extracted.value).duplicates]
                         /\ UNCHANGED <<disk, cleaned>>
    /\ UNCHANGED <<jobs, tasks, txns>>

\* Stage 7: StatementProcessor._save_transactions, then completion and cleanup.
cont_save(k) ==
    /\ conts[k].pc = "save"
    /\ LET c == conts[k]
           found == c.account_id # None /\ c.account_id[1] \in 1..Len(accounts)
       IN IF ~found
          THEN /\ cont_fail(k, c.status, "Account not found")
               /\ UNCHANGED txns
          ELSE \E commit_ok \in BOOLEAN :
                 /\ txns' = save_transactions(txns, c.account_id[1],
                                accounts[c.account_id[1]].user_id, c.job,
                                c.new_transactions, commit_ok)
                 /\ IF commit_ok \/ c.new_transactions = <<>>
                    THEN /\ conts' = [conts EXCEPT
                                ![k].pc = "writeback",
                                ![k].status = status_update(c.status, COMPLETED, 100)]
                         /\ cleanup(c.status.metadata["file_path"])
                    ELSE \E msg \in ErrMsgs : cont_fail(k, c.status, msg)
    /\ UNCHANGED <<jobs, tasks, accounts>>

\* continue_processing after continue_after_confirmation returned: the result
\* is written to the job; if that write raises, the except branch writes a
\* failed job.
cont_writeback(k) ==
    /\ conts[k].pc = "writeback"
    /\ LET st == conts[k].status
       IN \/ jobs' = [jobs EXCEPT ![conts[k].job] =
                 update_job(@, Some(st.stage), Some(st.stage), Some(st.progress),
                            st.error, EmptyMeta)]
          \/ \E msg \in TextErrMsgs :
                 jobs' = [jobs EXCEPT ![conts[k].job] =
                     update_job(@, Some(FAILED), Some(FAILED), Some(0), Some(msg), EmptyMeta)]
    /\ conts' = [conts EXCEPT ![k] = Continuation(conts[k].job, "done", None, FALSE, None)]
    /\ UNCHANGED <<tasks, disk, cleaned, accounts, txns>>

\* ------------------------------------------------- categorization tasks
\* What the completion service does with a prompt: it raises, it answers
\* text that is not JSON, or it answers JSON.
Raised(msg) == [kind |-> "raise", msg |-> msg]
NotJson == [kind |-> "text"]
Json(v) == [kind |-> "json", value |-> v]

\* Confidences are in hundredths: 80 is 0.8 and 90 is 0.9.
\* A row of categorization_rules for a merchant.
RuleRows ==
    {[pattern_type |-> "merchant_exact", pattern_value |-> "m1",
      category |-> "Coffee", confidence_score |-> c,
      usage_count |-> 0, last_used_at |-> None] : c \in {80, 81}}

\* Batches of uncategorized transactions: transaction i of a batch has id i.
Uncategorized ==
    UNION {[1..n -> {"m1", "m2"}] : n \in 0..MaxUncategorized}
CatBatch(merchants) ==
    [i \in 1..Len(merchants) |->
        [id |-> i, merchant_name |-> merchants[i], description |-> merchants[i]]]

\* check_categorization_rules: no query is made; the answer is always None.
check_categorization_rules(merchant_name, description) == None

\* categorize_batch, the loop over the batch: whether transaction i is taken
\* by the rule tier.
by_rule(transaction_batch) ==
    [i \in 1..Len(transaction_batch) |->
        LET rule == check_categorization_rules(transaction_batch[i].merchant_name,
                                               transaction_batch[i].description)
        IN rule # None /\ rule[1].confidence_score > 80]

categorized_by_rules(transaction_batch) ==
    LET taken == Kept(transaction_batch, by_rule(transaction_batch), TRUE, 1)
    IN [i \in 1..Len(taken) |->
          LET rule == check_categorization_rules(taken[i].merchant_name,
                                                 taken[i].description)[1]
          IN [id |-> taken[i].id, category |-> rule.category,
              confidence |-> rule.confidence_score, method |-> Some("rule")]]

needs_ai(transaction_batch) ==
    Kept(transaction_batch, by_rule(transaction_batch), FALSE, 1)

\* What the completion service can do with the prompt of categorize_batch.
\* A JSON answer has one result per transaction; the prompt asks for id,
\* category, confidence and no "method", which an answer may carry or not.
CategorizeAnswers(sent) ==
    {Raised(m) : m \in TextErrMsgs} \cup {NotJson} \cup
    {Json([i \in 1..Len(sent) |->
              [id |-> sent[i].id, category |-> "Food", confidence |-> c[i],
               method |-> m[i]]]) :
        c \in [1..Len(sent) -> {90, 91}],
        m \in [1..Len(sent) -> {None, Some("ai")}]}

\* categorize_batch: the results, or the exception that leaves the task. The
\* completion service is called only when some transaction needs it, and
\* json.loads raises on an answer that is not JSON.
categorize_batch(transaction_batch, answer) ==
    IF needs_ai(transaction_batch) = <<>>
    THEN Return(categorized_by_rules(transaction_batch))
    ELSE IF answer.kind = "raise" THEN Raise(answer.msg)
    ELSE IF answer.kind = "text" THEN Raise("JSONDecodeError")
    ELSE Return(categorized_by_rules(transaction_batch) \o answer.value)

\* create_categorization_rule: nothing is stored.
create_categorization_rule(table, result) == table

\* save_categorizations from result i on: the rules table after the loop.
\* update_transaction_category stores nothing either.
RECURSIVE save_categorizations(_, _, _)
save_categorizations(table, categorization_results, i) ==
    IF i > Len(categorization_results) THEN table
    ELSE LET result == categorization_results[i]
         IN save_categorizations(
                IF result.method = Some("ai") /\ result.confidence > 90
                THEN create_categorization_rule(table, result)
                ELSE table,
                categorization_results, i + 1)

\* The categorize_batch task on the batch of the run.
categorize_batch_task ==
    /\ flow.pc = "categorize"
    /\ \E answer \in CategorizeAnswers(needs_ai(flow.batch)) :
          LET r == categorize_batch(flow.batch, answer)
              sent == IF needs_ai(flow.batch) = <<>> THEN None
                      ELSE Some(needs_ai(flow.batch))
          IN flow' = IF r.raise # None
                     THEN [flow EXCEPT !.pc = "failed", !.sent = sent]
                     ELSE [flow EXCEPT !.pc = "save", !.sent = sent,
                                       !.results = r.value]
    /\ UNCHANGED <<pipeline, dupcheck, rules, aicall, matchcall, parsecall, reruns>>

\* The save_categorizations task on the results of the run.
save_categorizations_task ==
    /\ flow.pc = "save"
    /\ rules' = save_categorizations(rules, flow.results, 1)
    /\ flow' = [flow EXCEPT !.pc = "done"]
    /\ UNCHANGED <<pipeline, dupcheck, aicall, matchcall, parsecall, reruns>>

InitCat ==
    /\ jobs = <<>>
    /\ tasks = <<>>
    /\ conts = <<>>
    /\ disk = <<>>
    /\ cleaned = {}
    /\ accounts = << [user_id |-> "u1"], [user_id |-> "u2"] >>
    /\ txns = <<>>
    /\ dupcheck = NoCall
    /\ rules \in SeqsUpTo(RuleRows, MaxRules)
    /\ flow \in {[NoRun EXCEPT !.pc = "categorize", !.batch = CatBatch(m)] :
                    m \in Uncategorized}
    /\ aicall = NoAiCall
    /\ matchcall = NoMatchCall
    /\ parsecall = NoParseCall
    /\ reruns = 0

NextCat ==
    \/ categorize_batch_task
    \/ save_categorizations_task

CatSpec == InitCat /\ [][NextCat]_vars

\* ------------------------------------------ categorize_transactions_batch
\* A transaction with the category and confidence written into it.
Categorized(txn, category, confidence) ==
    [date |-> txn.date, amount |-> txn.amount, description |-> txn.description,
     merchant_name |-> txn.merchant_name, category |-> Some(category),
     confidence |-> confidence]

\* A slice one transaction too long, transactions[i : i + batch_size + 1]:
\* consecutive slices overlap.
BatchOf_overlapping(transactions, b) ==
    SubSeq(transactions, (b - 1) * batch_size + 1,
           IF b * batch_size + 1 < Len(transactions) THEN b * batch_size + 1
           ELSE Len(transactions))

\* transactions[i : i + batch_size] for the b-th value of i.
BatchOf(transactions, b) ==
    SubSeq(transactions, (b - 1) * batch_size + 1,
           IF b * batch_size < Len(transactions) THEN b * batch_size
           ELSE Len(transactions))
NumBatches(transactions) == (Len(transactions) + batch_size - 1) \div batch_size

\* categorization_flow: the list of slices handed to categorize_batch.map.
batches(uncategorized) ==
    [b \in 1..NumBatches(uncategorized) |-> BatchOf(uncategorized, b)]

\* A transaction that is in no batch.
StrayRow == Draft(3, 9, <<3>>, <<3>>)

\* What the completion service can do with the prompt for a batch: raise,
\* answer text that is not JSON, or answer a JSON list: the batch with
\* categories, the batch without its last transaction, the batch and one
\* transaction more, or the batch with its first transaction replaced.
BatchAnswers(batch) ==
    LET answered == [i \in 1..Len(batch) |-> Categorized(batch[i], "Food", 95)]
    IN {Raised(m) : m \in TextErrMsgs} \cup {NotJson} \cup
       {Json(answered),
        Json(SubSeq(answered, 1, Len(answered) - 1)),
        Json(Append(answered, Categorized(StrayRow, "Food", 95))),
        Json([answered EXCEPT ![1] = Categorized(StrayRow, "Food", 95)])}

\* The loop of categorize_transactions_batch from batch b on: an exception
\* of the completion service leaves the function, an answer that is not
\* JSON puts the batch in with the default category.
RECURSIVE categorize_from(_, _, _, _)
categorize_from(transactions, answers, b, all_categorized) ==
    IF b > NumBatches(transactions) THEN Return(all_categorized)
    ELSE LET batch == BatchOf(transactions, b)
         IN IF answers[b].kind = "raise" THEN Raise(answers[b].msg)
            ELSE IF answers[b].kind = "text"
            THEN categorize_from(transactions, answers, b + 1,
                     all_categorized \o
                     [i \in 1..Len(batch) |-> Categorized(batch[i], "Other", 0)])
            ELSE categorize_from(transactions, answers, b + 1,
                     all_categorized \o answers[b].value)

\* ai_service.categorize_transactions_batch
categorize_transactions_batch(transactions, answers) ==
    IF transactions = <<>> THEN Return(<<>>)
    ELSE categorize_from(transactions, answers, 1, <<>>)

\* Parsed CSV rows handed to categorize_transactions_batch.
AiRows == {Draft(1, 5, <<1>>, <<1>>), Draft(2, 7, <<2>>, <<2>>)}

\* A caller of categorize_transactions_batch: the answers of the completion
\* service, one for each prompt, and the result are kept.
categorize_transactions_batch_call ==
    /\ aicall.result = None
    /\ \E answers \in [1..NumBatches(aicall.transactions) ->
                         UNION {BatchAnswers(BatchOf(aicall.transactions, b)) :
                                   b \in 1..NumBatches(aicall.transactions)}] :
          /\ \A b \in 1..NumBatches(aicall.transactions) :
                answers[b] \in BatchAnswers(BatchOf(aicall.transactions, b))
          /\ aicall' = [aicall EXCEPT
                           !.answers = answers,
                           !.result = Some(categorize_transactions_batch(
                                               aicall.transactions, answers))]
    /\ UNCHANGED <<pipeline, dupcheck, rules, flow, matchcall, parsecall, reruns>>

InitAi ==
    /\ jobs = <<>>
    /\ tasks = <<>>
    /\ conts = <<>>
    /\ disk = <<>>
    /\ cleaned = {}
    /\ accounts = << [user_id |-> "u1"], [user_id |-> "u2"] >>
    /\ txns = <<>>
    /\ dupcheck = NoCall
    /\ rules = <<>>
    /\ flow = NoRun
    /\ aicall \in {[NoAiCall EXCEPT !.transactions = t] :
                      t \in SeqsUpTo(AiRows, MaxCategorized)}
    /\ matchcall = NoMatchCall
    /\ parsecall = NoParseCall
    /\ reruns = 0

NextAi == categorize_transactions_batch_call

AiSpec == InitAi /\ [][NextAi]_vars

\* ------------------------------------------------- update_job on its own
\* An id no job has.
UnknownJob == MaxJobs + 1

\* Arguments of update_job: left out, empty, and given.
StatusArgs == {None, Some(""), Some("running"), Some(FAILED)}
StageArgs == {None, Some(""), Some(AWAITING_CONFIRMATION)}
ProgressArgs == {None, Some(60)}
ErrorArgs == {None, Some(""), Some("boom")}
MetadataArgs ==
    {[k \in MetaKeys |->
        CASE k = "statement_metadata" -> sm
          [] k = "account_match" -> am
          [] k = "file_path" -> fp
          [] OTHER -> None] :
        sm \in {None, Some("parsed")}, am \in {None},
        fp \in {None} \cup {Some(f) : f \in 1..MaxFiles}}

\* A caller of update_job, for the first job of the table or for an id the
\* table has not.
update_job_call ==
    /\ \E job_id \in {1, UnknownJob}, status \in StatusArgs, stage \in StageArgs,
          progress \in ProgressArgs, error_message \in ErrorArgs,
          metadata \in MetadataArgs :
          jobs' = update_job_by_id(jobs, job_id, status, stage, progress,
                                   error_message, metadata)
    /\ UNCHANGED <<tasks, conts, disk, cleaned, accounts, txns>>
    /\ UNCHANGED units

InitJob ==
    /\ jobs = <<create_job("u1"), create_job("u2")>>
    /\ tasks = <<>>
    /\ conts = <<>>
    /\ disk = <<>>
    /\ cleaned = {}
    /\ accounts = << [user_id |-> "u1"], [user_id |-> "u2"] >>
    /\ txns = <<>>
    /\ dupcheck = NoCall
    /\ rules = <<>>
    /\ flow = NoRun
    /\ aicall = NoAiCall
    /\ matchcall = NoMatchCall
    /\ parsecall = NoParseCall
    /\ reruns = 0

NextJob == update_job_call

JobSpec == InitJob /\ [][NextJob]_vars

\* --------------------------------------------------- suggest_account_match
\* Statement metadata is a dict over some of these keys; the value of a key
\* is None (JSON null) or a string.
MatchKeys == {"institution", "account_type", "account_number_last4"}

\* dict.get(key, default): the default is used only for a key that is not in
\* the dict, so a key that holds None gives None.
dict_get(d, key, default) == IF key \in DOMAIN d THEN d[key] ELSE Some(default)

\* str.title() of the account types that occur.
title(t) ==
    CASE t = "checking" -> "Checking"
      [] t = "savings" -> "Savings"
      [] t = "unknown" -> "Unknown"
      [] t = "Unknown" -> "Unknown"

\* An optional string inside an f-string: None is written "None".
fstr(o) == IF o = None THEN "None" ELSE o[1]

\* Metadata given to the matcher: each key absent, null or set; the last-4
\* may also be the empty string.
MatchMetadata ==
    UNION {{m \in [K -> {None, Some("Chase"), Some("checking"), Some("1234"), Some("")}] :
               /\ "institution" \in K => m["institution"] \in {None, Some("Chase")}
               /\ "account_type" \in K => m["account_type"] \in {None, Some("checking")}
               /\ "account_number_last4" \in K =>
                     m["account_number_last4"] \in {None, Some(""), Some("1234")}} :
           K \in SUBSET MatchKeys}

\* Accounts as get_user_accounts lists them.
Account(id, institution, account_type, last4) ==
    [id |-> id, institution |-> institution, account_type |-> account_type,
     account_number_last4 |-> last4]
CandidateAccounts ==
    {Account(1, Some("Chase"), "checking", Some("1234")),
     Account(2, Some("Chase"), "checking", Some("9999")),
     Account(3, Some("Citi"), "savings", None)}

\* Account lists without repetition, of at most MaxCandidates accounts.
CandidateLists ==
    {l \in SeqsUpTo(CandidateAccounts, MaxCandidates) :
        \A i, j \in 1..Len(l) : i # j => l[i] # l[j]}

\* What the completion service can do with the prompt of
\* suggest_account_match: raise, answer text that is not JSON, or answer a
\* suggestion; nothing in a suggestion is checked against the metadata or
\* the accounts.
MatchAnswers(user_accounts) ==
    {Raised(m) : m \in TextErrMsgs} \cup {NotJson} \cup
    {Json([suggested_account_id |-> id, confidence |-> c, should_create_new |-> n,
           suggested_account_name |-> name]) :
        id \in {None} \cup {Some(user_accounts[i].id) : i \in 1..Len(user_accounts)},
        c \in {0, 50, 80, 100}, n \in BOOLEAN,
        name \in {None, Some(<<"Account">>)}}

\* The except branch of suggest_account_match: a new account is suggested
\* under a generated name. account_type.title() raises when the metadata
\* holds a null account type.
match_fallback(statement_metadata) ==
    LET institution == dict_get(statement_metadata, "institution", "Unknown")
        account_type == dict_get(statement_metadata, "account_type", "Unknown")
        last4 == dict_get(statement_metadata, "account_number_last4", "")
        account_name == <<fstr(institution), " ", title(account_type[1])>>
    IN IF account_type = None THEN Raise("'NoneType' object has no attribute 'title'")
       ELSE Return([suggested_account_id |-> None, confidence |-> 0,
                    should_create_new |-> TRUE,
                    suggested_account_name |->
                        Some(IF TruthyStr(last4)
                             THEN account_name \o <<" (...", last4[1], ")">>
                             ELSE account_name)])

\* ai_service.suggest_account_match: the suggestion, or the exception that
\* leaves the function. An exception of the completion service is not
\* caught; a JSON answer is returned as it is.
suggest_account_match(statement_metadata, user_accounts, answer) ==
    IF answer.kind = "raise" THEN Raise(answer.msg)
    ELSE IF answer.kind = "json" THEN Return(answer.value)
    ELSE match_fallback(statement_metadata)

\* A caller of suggest_account_match: the answer of the completion service
\* and the result are kept.
suggest_account_match_call ==
    /\ matchcall.result = None
    /\ \E answer \in MatchAnswers(matchcall.user_accounts) :
          matchcall' = [matchcall EXCEPT
                           !.answer = Some(answer),
                           !.result = Some(suggest_account_match(
                                               matchcall.statement_metadata,
                                               matchcall.user_accounts, answer))]
    /\ UNCHANGED <<pipeline, dupcheck, rules, flow, aicall, parsecall, reruns>>

InitMatch ==
    /\ jobs = <<>>
    /\ tasks = <<>>
    /\ conts = <<>>
    /\ disk = <<>>
    /\ cleaned = {}
    /\ accounts = << [user_id |-> "u1"], [user_id |-> "u2"] >>
    /\ txns = <<>>
    /\ dupcheck = NoCall
    /\ rules = <<>>
    /\ flow = NoRun
    /\ aicall = NoAiCall
    /\ matchcall \in {[NoMatchCall EXCEPT !.statement_metadata = m, !.user_accounts = l] :
                         m \in MatchMetadata, l \in CandidateLists}
    /\ parsecall = NoParseCall
    /\ reruns = 0

NextMatch == suggest_account_match_call

MatchSpec == InitMatch /\ [][NextMatch]_vars

\* ----------------------------------------------------------- parse_csv_file
\* A CSV file as pandas reads it below its header row: the column names and
\* the data rows, a cell being None (NaN, an empty cell) or Some(text).

\* df.columns.str.lower().str.strip() on the names that occur.
lower_strip(name) ==
    CASE name = "Date" -> "date"
      [] name = "Amount" -> "amount"
      [] name = "Description" -> "description"
      [] name = "Transaction Date" -> "transaction date"
      [] name = "Post Date" -> "post date"
      [] name = "Debit" -> "debit"
      [] name = "Credit" -> "credit"
      [] name = "Payee" -> "payee"
      [] name = "Balance " -> "balance"

\* column_mappings of normalize_column_names; a name that is not a key keeps
\* its name.
column_mappings(name) ==
    CASE name \in {"date", "transaction date", "trans date", "posting date",
                   "post date"} -> "date"
      [] name \in {"amount", "debit", "credit", "transaction amount"} -> "amount"
      [] name \in {"description", "desc", "transaction description", "memo",
                   "details"} -> "description"
      [] name \in {"merchant", "payee", "vendor"} -> "merchant_name"
      [] OTHER -> name

\* normalize_column_names: two columns may end up with one name.
normalize_column_names(columns) ==
    [i \in 1..Len(columns) |-> column_mappings(lower_strip(columns[i]))]

\* parse_date on the texts that occur: YYYY-MM-DD, or None.
parse_date(date_str) ==
    CASE date_str = "2024-01-02" -> Some("2024-01-02")
      [] date_str = "01/03/2024" -> Some("2024-01-03")
      [] date_str = "soon" -> None

\* parse_amount on the texts that occur, in hundredths, or None.
parse_amount(amount_str) ==
    CASE amount_str = "-12.50" -> Some(-1250)
      [] amount_str = "(5.00)" -> Some(-500)
      [] amount_str = "$2,000.00" -> Some(200000)
      [] amount_str = "n.a." -> None

\* clean_merchant_name on the texts that occur.
clean_merchant_name(description) ==
    CASE description = "" -> ""
      [] description = "STARBUCKS #4821" -> "STARBUCKS"
      [] description = "Starbucks REF: 77" -> "Starbucks"

\* row.get(key) and row[key] of a row of the frame: nothing when no column
\* has the name, the cell when one has, a Series of the cells when several
\* have.
row_get(columns, row, key) ==
    LET at == {i \in 1..Len(columns) : columns[i] = key}
    IN IF at = {} THEN [kind |-> "none"]
       ELSE IF Cardinality(at) = 1
       THEN [kind |-> "scalar", cell |-> row[CHOOSE i \in at : TRUE]]
       ELSE [kind |-> "series"]

\* pd.isna of a value that is not a Series.
isna(v) == v.kind = "none" \/ v.cell = None

\* One pass of the loop of parse_csv_file: the row is skipped, gives a
\* transaction, or the truth value of a Series is asked for, which raises.
parse_row(columns, row) ==
    LET date == row_get(columns, row, "date")
        amount == row_get(columns, row, "amount")
        desc == row_get(columns, row, "description")
        merchant == row_get(columns, row, "merchant_name")
        description == IF isna(desc) THEN "" ELSE desc.cell[1]
        ambiguous == Raise("The truth value of a Series is ambiguous")
    IN IF date.kind = "series" THEN ambiguous
       ELSE IF isna(date) THEN Return(<<>>)
       ELSE IF amount.kind = "series" THEN ambiguous
       ELSE IF isna(amount) THEN Return(<<>>)
       ELSE IF parse_date(date.cell[1]) = None THEN Return(<<>>)
       ELSE IF parse_amount(amount.cell[1]) = None THEN Return(<<>>)
       ELSE IF desc.kind = "series" THEN ambiguous
       ELSE IF merchant.kind = "series" THEN ambiguous
       ELSE Return(<< [date |-> parse_date(date.cell[1])[1],
                       amount |-> parse_amount(amount.cell[1])[1],
                       description |-> description,
                       merchant_name |->
                           IF ~isna(merchant)
                           THEN clean_merchant_name(merchant.cell[1])
                           ELSE clean_merchant_name(description)] >>)

\* The loop of parse_csv_file from row i on.
RECURSIVE parse_rows(_, _, _, _)
parse_rows(columns, rows, i, transactions) ==
    IF i > Len(rows) THEN Return(transactions)
    ELSE LET r == parse_row(columns, rows[i])
         IN IF r.raise # None THEN r
            ELSE parse_rows(columns, rows, i + 1, transactions \o r.value)

\* csv_parser.parse_csv_file: the transactions, or the exception raised.
parse_csv_file(file) ==
    LET columns == normalize_column_names(file.columns)
    IN IF ~InSeq("date", columns) \/ ~InSeq("amount", columns)
       THEN Raise("CSV must contain 'date' and 'amount' columns")
       ELSE parse_rows(columns, file.rows, 1, <<>>)

\* The cells that occur under a column.
Cells(column) ==
    CASE column = "date" -> {None, Some("2024-01-02"), Some("01/03/2024"), Some("soon")}
      [] column = "amount" -> {None, Some("-12.50"), Some("(5.00)"), Some("$2,000.00"),
                               Some("n.a.")}
      [] column = "description" -> {None, Some("STARBUCKS #4821")}
      [] column = "merchant_name" -> {None, Some("Starbucks REF: 77")}
      [] OTHER -> {None}

\* Header rows: one date and one amount column; the same with a payee and a
\* balance column; a transaction date and a post date; a debit and a credit
\* column; no amount column.
CsvHeaders ==
    { <<"Date", "Amount", "Description">>,
      <<"Date", "Payee", "Amount", "Balance ">>,
      <<"Transaction Date", "Post Date", "Description", "Amount">>,
      <<"Date", "Description", "Debit", "Credit">>,
      <<"Date", "Description">> }

\* The rows that can stand under normalized columns, from column i on:
\* each cell is one that occurs under its column.
RECURSIVE CsvRows(_, _)
CsvRows(columns, i) ==
    IF i > Len(columns) THEN {<<>>}
    ELSE {<<cell>> \o rest : cell \in Cells(columns[i]), rest \in CsvRows(columns, i + 1)}

\* A file with header h and data rows.
CsvFile(h, rows) == [columns |-> h, rows |-> rows]

\* A caller of parse_csv_file: the result is kept.
parse_csv_file_call ==
    /\ parsecall.result = None
    /\ parsecall' = [parsecall EXCEPT !.result = Some(parse_csv_file(parsecall.file[1]))]
    /\ UNCHANGED <<pipeline, dupcheck, rules, flow, aicall, matchcall, reruns>>

InitParse ==
    /\ jobs = <<>>
    /\ tasks = <<>>
    /\ conts = <<>>
    /\ disk = <<>>
    /\ cleaned = {}
    /\ accounts = << [user_id |-> "u1"], [user_id |-> "u2"] >>
    /\ txns = <<>>
    /\ dupcheck = NoCall
    /\ rules = <<>>
    /\ flow = NoRun
    /\ aicall = NoAiCall
    /\ matchcall = NoMatchCall
    /\ \E h \in CsvHeaders :
          \E rows \in SeqsUpTo(CsvRows(normalize_column_names(h), 1), MaxCsvRows) :
             parsecall = [NoParseCall EXCEPT !.file = Some(CsvFile(h, rows))]
    /\ reruns = 0

NextParse == parse_csv_file_call

ParseSpec == InitParse /\ [][NextParse]_vars

\* ------------------------------------------------------------ specifications
Init ==
    /\ jobs = <<>>
    /\ tasks = <<>>
    /\ conts = <<>>
    /\ disk = <<>>
    /\ cleaned = {}
    /\ accounts = << [user_id |-> "u1"], [user_id |-> "u2"] >>
    /\ txns = <<EarlierRow>>
    /\ dupcheck = NoCall
    /\ rules = <<>>
    /\ flow = NoRun
    /\ aicall = NoAiCall
    /\ matchcall = NoMatchCall
    /\ parsecall = NoParseCall
    /\ reruns = 0

Next ==
    \/ /\ \E u \in Uploaders, f \in UploadFiles : upload_statement(u, f)
       /\ UNCHANGED units
    \/ /\ \E j \in JobIds : bg_process(j)
       /\ UNCHANGED units
    \/ /\ \E j \in JobIds : bg_writeback(j)
       /\ UNCHANGED units
    \/ /\ \E j \in 1..MaxJobs, u \in Users : get_processing_status(j, u)
       /\ UNCHANGED units
    \/ /\ \E j \in 1..MaxJobs, u \in Users :
             \E r \in IF confirm_response(j, u) = 200
                       THEN ConfirmRequests ELSE {Confirm(Some(1), FALSE, None)} :
                confirm_account(j, u, r)
       /\ UNCHANGED units
    \/ /\ \E k \in ContIds : confirm_resume(k)
       /\ UNCHANGED units
    \/ /\ \E k \in ContIds : cont_load(k)
       /\ UNCHANGED units
    \/ /\ \E k \in ContIds : cont_check(k)
       /\ UNCHANGED units
    \/ /\ \E k \in ContIds : cont_save(k)
       /\ UNCHANGED units
    \/ /\ \E k \in ContIds : cont_writeback(k)
       /\ UNCHANGED units

Spec == Init /\ [][Next]_vars

\* ------------------------------------------------ the pipeline, scheduled
\* process_statement_background ended by an exception that no handler of
\* the task catches: one raised where StatementProcessor and SyncJobService
\* are constructed, ahead of the try, or one raised by update_job inside the
\* except branch. Nothing is written to the job.
bg_unhandled(j) ==
    /\ tasks[j].pc \in {"process", "writeback"}
    /\ tasks' = [tasks EXCEPT ![j] = [pc |-> "done", status |-> ProcessingStatus]]
    /\ UNCHANGED <<jobs, conts, disk, cleaned, accounts, txns>>

\* continue_processing ended the same way.
cont_unhandled(k) ==
    /\ conts[k].pc \in {"load", "writeback"}
    /\ conts' = [conts EXCEPT ![k] = Continuation(conts[k].job, "done", None, FALSE, None)]
    /\ UNCHANGED <<jobs, tasks, disk, cleaned, accounts, txns>>

\* The pipeline for MaxLiveJobs uploads, with the ways a task can end.
NextLive ==
    \/ /\ Len(jobs) < MaxLiveJobs
       /\ \E u \in Uploaders, f \in UploadFiles : upload_statement(u, f)
       /\ UNCHANGED units
    \/ /\ \E j \in JobIds : bg_process(j)
       /\ UNCHANGED units
    \/ /\ \E j \in JobIds : bg_writeback(j)
       /\ UNCHANGED units
    \/ /\ \E j \in 1..MaxJobs, u \in Users : get_processing_status(j, u)
       /\ UNCHANGED units
    \/ /\ \E j \in 1..MaxJobs, u \in Users :
             \E r \in IF confirm_response(j, u) = 200
                       THEN ConfirmRequests ELSE {Confirm(Some(1), FALSE, None)} :
                confirm_account(j, u, r)
       /\ UNCHANGED units
    \/ /\ \E k \in ContIds : confirm_resume(k)
       /\ UNCHANGED units
    \/ /\ \E k \in ContIds : cont_load(k)
       /\ UNCHANGED units
    \/ /\ \E k \in ContIds : cont_check(k)
       /\ UNCHANGED units
    \/ /\ \E k \in ContIds : cont_save(k)
       /\ UNCHANGED units
    \/ /\ \E k \in ContIds : cont_writeback(k)
       /\ UNCHANGED units
    \/ /\ \E j \in JobIds : bg_unhandled(j)
       /\ UNCHANGED units
    \/ /\ \E k \in ContIds : cont_unhandled(k)
       /\ UNCHANGED units

\* A step of a coroutine the event loop has to run: a background task, or a
\* confirm_account request past its checks. Every call such a step waits
\* for (parser, completion service, database) returns or raises.
Background ==
    /\ \/ \E j \in JobIds : bg_process(j) \/ bg_writeback(j) \/ bg_unhandled(j)
       \/ \E k \in ContIds :
             \/ cont_unhandled(k)
             \/ confirm_resume(k)
             \/ cont_load(k)
             \/ cont_check(k)
             \/ cont_save(k)
             \/ cont_writeback(k)
    /\ UNCHANGED units

\* The event loop runs a coroutine that is ready.
LiveSpec == Init /\ [][NextLive]_vars /\ WF_vars(Background)

\* ------------------------------------------- the first half called once more
\* A caller starts process_statement_background again for a job whose task
\* has returned, with the arguments of the first call; the file is still in
\* the upload directory.
rerun_process_statement(j) ==
    /\ reruns < MaxReruns
    /\ tasks[j].pc = "done"
    /\ disk[j] # None
    /\ tasks' = [tasks EXCEPT ![j] = [pc |-> "process", status |-> ProcessingStatus]]
    /\ reruns' = reruns + 1
    /\ UNCHANGED <<jobs, conts, disk, cleaned, accounts, txns>>
    /\ UNCHANGED <<dupcheck, rules, flow, aicall, matchcall, parsecall>>

\* The pipeline for MaxRerunJobs uploads, with such calls.
NextRerun ==
    \/ /\ Len(jobs) < MaxRerunJobs
       /\ \E u \in Uploaders, f \in UploadFiles : upload_statement(u, f)
       /\ UNCHANGED units
    \/ /\ \E j \in JobIds : bg_process(j)
       /\ UNCHANGED units
    \/ /\ \E j \in JobIds : bg_writeback(j)
       /\ UNCHANGED units
    \/ /\ \E j \in 1..MaxJobs, u \in Users : get_processing_status(j, u)
       /\ UNCHANGED units
    \/ /\ \E j \in 1..MaxJobs, u \in Users :
             \E r \in IF confirm_response(j, u) = 200
                       THEN ConfirmRequests ELSE {Confirm(Some(1), FALSE, None)} :
                confirm_account(j, u, r)
       /\ UNCHANGED units
    \/ /\ \E k \in ContIds : confirm_resume(k)
       /\ UNCHANGED units
    \/ /\ \E k \in ContIds : cont_load(k)
       /\ UNCHANGED units
    \/ /\ \E k \in ContIds : cont_check(k)
       /\ UNCHANGED units
    \/ /\ \E k \in ContIds : cont_save(k)
       /\ UNCHANGED units
    \/ /\ \E k \in ContIds : cont_writeback(k)
       /\ UNCHANGED units
    \/ \E j \in JobIds : rerun_process_statement(j)

RerunSpec == Init /\ [][NextRerun]_vars

\* ----------------------------------------------------------------- claims
ContsOf(j) == {k \in ContIds : conts[k].job = j}

\* C5: for any job at most one confirm_account call is accepted and at most
\* one continuation is ever started, also when two calls race.
C5_SingleContinuation ==
    \A j \in JobIds : Cardinality({k \in ContsOf(j) : conts[k].pc # "confirmed"}) <= 1

\* C1: the stage written to a job record never moves backwards in the order
\* uploading .. completed, except by a write of failed.
C1_StageMonotonic ==
    [][\A j \in JobIds :
         jobs'[j].stage # jobs[j].stage =>
            \/ jobs'[j].stage = FAILED
            \/ StageOrder(jobs'[j].stage) > StageOrder(jobs[j].stage)]_vars

\* C2: completed and failed are absorbing: once a job record has one of
\* them as its stage, no step changes the stage.
C2_TerminalAbsorbing ==
    [][\A j \in JobIds :
         jobs[j].stage \in {COMPLETED, FAILED} => jobs'[j].stage = jobs[j].stage]_vars

\* C3: while no confirm_account call for a job has been accepted, the job
\* is not in a stage after the suspension (neither on record nor in its
\* task), and the table holds no transaction of that job; a transaction is
\* only ever written by a continuation that got past its save.
C3_SuspendedUntilConfirmed ==
    /\ \A j \in JobIds :
          ContsOf(j) = {} =>
             /\ StageOrder(jobs[j].stage) \notin 5..8
             /\ StageOrder(tasks[j].status.stage) \notin 5..8
             /\ \A n \in 1..Len(txns) : txns[n].job # j
    /\ \A n \in 1..Len(txns) :
          txns[n].job # 0 =>
             \E k \in ContsOf(txns[n].job) : conts[k].pc \in {"writeback", "done"}

\* A job suspended at the confirmation, its task returned, nothing accepted.
C3_Witness ==
    \E j \in JobIds :
        /\ jobs[j].stage = AWAITING_CONFIRMATION
        /\ tasks[j].pc = "done"
        /\ ContsOf(j) = {}

\* C4: a confirm_account call for a job whose stage is not
\* awaiting_confirmation is answered with a caller error (400, or 404 when
\* the caller is not the owner), starts no continuation and leaves the job
\* records, and everything else, as they were.
C4_RejectedConfirmChangesNothing ==
    [][\A j \in JobIds, u \in Users, r \in ConfirmRequests :
         (jobs[j].stage # AWAITING_CONFIRMATION /\ confirm_account(j, u, r)) =>
            /\ confirm_response(j, u) \in {400, 404}
            /\ UNCHANGED vars]_vars

\* A resumed job whose owner can still send a confirm_account request.
C4_Witness ==
    \E j \in JobIds :
        /\ jobs[j].stage = EXTRACTING_TRANSACTIONS
        /\ confirm_response(j, jobs[j].user_id) = 400
        /\ Len(conts) < MaxConfirms

\* A persisted row matches a draft for an account: date within a day, same
\* amount, and equal or containing descriptions, or equal merchants.
Matches(e, account_id, d) ==
    /\ Some(e.account_id) = account_id
    /\ e.date - d.date \in -1..1
    /\ e.amount = d.amount
    /\ \/ lower(e.description) = lower(d.description)
       \/ contains(lower(e.description), lower(d.description))
       \/ contains(lower(d.description), lower(e.description))
       \/ /\ d.merchant_name # <<>>
          /\ e.merchant_name # <<>>
          /\ lower(e.merchant_name) = lower(d.merchant_name)

\* C6 as stated: the table never holds two rows written by the pipeline for
\* one account with dates within a day, equal amounts and matching
\* descriptions or merchants.
C6_NoTwoMatchingRows ==
    \A a, b \in 1..Len(txns) :
        (a < b /\ txns[a].job # 0 /\ txns[b].job # 0) =>
           ~Matches(txns[a], Some(txns[b].account_id), txns[b])

\* C6 as amended: a draft that matched a row of the target account when its
\* job checked for duplicates is not persisted by that job: the check keeps,
\* in order, exactly the drafts that match no row of the table as it is at
\* the check, and the save adds the kept drafts and nothing else.
C6_NoKnownDuplicateSaved ==
    [][\A k \in ContIds :
         /\ (conts[k].pc = "check" /\ conts'[k].pc = "save") =>
               conts'[k].new_transactions =
                  SelectSeq(conts'[k].transactions, LAMBDA d :
                      \A n \in 1..Len(txns) : ~Matches(txns[n], conts'[k].account_id, d))
         /\ (conts[k].pc = "save" /\ conts'[k].pc = "writeback") =>
               /\ Len(txns') \in {Len(txns), Len(txns) + Len(conts[k].new_transactions)}
               /\ \A n \in 1..Len(txns) : txns'[n] = txns[n]
               /\ \A n \in (Len(txns) + 1)..Len(txns') :
                     LET d == conts[k].new_transactions[n - Len(txns)]
                     IN /\ Some(txns'[n].account_id) = conts[k].account_id
                        /\ txns'[n].date = d.date
                        /\ txns'[n].amount = d.amount
                        /\ txns'[n].description = d.description
                        /\ txns'[n].merchant_name = d.merchant_name]_vars

\* A continuation whose check dropped a draft that is a day off a row of the
\* table and contained in its description, ignoring case.
C6_Witness ==
    \E k \in ContIds :
        /\ conts[k].pc = "save"
        /\ conts[k].transactions = RowsNear
        /\ conts[k].new_transactions = <<>>

C8_FailedImpliesCleanup ==
    \A j \in JobIds : jobs[j].stage = FAILED => j \in cleaned

\* C9: whenever the stage of a job is failed, its error message is set.
C9_FailedHasError ==
    \A j \in JobIds : jobs[j].stage = FAILED => jobs[j].error_message # None

\* C10: whenever the stage of a job is completed, cleanup has been called
\* with the file path stored in the payload of the job.
C10_CompletedImpliesCleanup ==
    \A j \in JobIds :
        jobs[j].stage = COMPLETED =>
           /\ jobs[j].meta["file_path"] # None
           /\ jobs[j].meta["file_path"][1] \in cleaned

\* A completed job whose source file is gone from the upload directory.
C10_Witness ==
    \E j \in JobIds :
        /\ jobs[j].stage = COMPLETED
        /\ j \in cleaned
        /\ disk[j] = None

\* C11: a get_processing_status call leaves every table as it was, and the
\* record of a job that awaits confirmation does not change while no
\* confirm_account call for it has been accepted.
C11_StatusPollReadOnly ==
    [][/\ \A j \in 1..MaxJobs, u \in Users :
            get_processing_status(j, u) => UNCHANGED vars
       /\ \A j \in JobIds :
            (jobs[j].stage = AWAITING_CONFIRMATION /\ ContsOf(j) = {}) =>
                jobs'[j] = jobs[j]]_vars

\* The owner polls a job that awaits confirmation and is shown that stage
\* with the suggested account; another user is shown nothing.
C11_Witness ==
    \E j \in JobIds :
        /\ ContsOf(j) = {}
        /\ status_response(j, jobs[j].user_id).code = 200
        /\ status_response(j, jobs[j].user_id).current_stage = AWAITING_CONFIRMATION
        /\ status_response(j, jobs[j].user_id).account_match # None
        /\ \E u \in Users : status_response(j, u).code = 404

\* C12 as stated: a persisted row of the account, dated within a day of the
\* draft, of the same amount, whose description or merchant name, ignoring
\* case, equals the draft's description, contains it or is contained in it.
StatedMatch(e, account_id, d) ==
    LET near(text) ==
           \/ contains(lower(text), lower(d.description))
           \/ contains(lower(d.description), lower(text))
    IN /\ Some(e.account_id) = account_id
       /\ e.date - d.date \in -1..1
       /\ e.amount = d.amount
       /\ near(e.description) \/ (e.merchant_name # <<>> /\ near(e.merchant_name))

\* C12 as stated: _is_duplicate is true for a draft exactly when a persisted
\* row matches it in the sense of StatedMatch.
C12_DuplicateAsStated ==
    dupcheck.result # None =>
        \A i \in 1..Len(dupcheck.transactions) :
            InSeq(dupcheck.transactions[i], dupcheck.result[1].duplicates)
                <=> \E n \in 1..Len(txns) :
                       StatedMatch(txns[n], dupcheck.account_id, dupcheck.transactions[i])

\* C12 as amended: _is_duplicate is true for a draft exactly when a
\* persisted row of the account is dated within a day of it, has the same
\* amount, and either its description, ignoring case, equals the draft's,
\* contains it or is contained in it, or both have a merchant name and the
\* two names are equal ignoring case.
C12_DuplicateExactlyWhenMatched ==
    dupcheck.result # None =>
        \A i \in 1..Len(dupcheck.transactions) :
            InSeq(dupcheck.transactions[i], dupcheck.result[1].duplicates)
                <=> \E n \in 1..Len(txns) :
                       Matches(txns[n], dupcheck.account_id, dupcheck.transactions[i])

\* The draft "a" without a merchant was classified a duplicate of a row "ab"
\* of the same day and amount, and a draft of another amount was not.
C12_Witness ==
    /\ dupcheck.result # None
    /\ \E n \in 1..Len(txns) :
          /\ txns[n].account_id = 1
          /\ txns[n].description = <<1, 2>>
          /\ InSeq(Draft(txns[n].date, txns[n].amount, <<1>>, <<>>),
                   dupcheck.result[1].duplicates)
    /\ \E i \in 1..Len(dupcheck.result[1].new) : dupcheck.result[1].new[i].amount = 7

\* Two drafts of one batch with the same date and amount, the description of
\* the first containing the description of the second, ignoring case.
Contained(d1, d2) ==
    /\ d1.date = d2.date
    /\ d1.amount = d2.amount
    /\ contains(lower(d1.description), lower(d2.description))

\* C13 as stated: when the first of two such drafts is classified a
\* duplicate, so is the second.
C13_ContainedDraftDuplicateAsStated ==
    dupcheck.result # None =>
        \A i, j \in 1..Len(dupcheck.transactions) :
            LET d1 == dupcheck.transactions[i]
                d2 == dupcheck.transactions[j]
            IN (Contained(d1, d2) /\ InSeq(d1, dupcheck.result[1].duplicates))
                  => InSeq(d2, dupcheck.result[1].duplicates)

\* C13 as amended: when a persisted row of the account, dated within a day
\* of the first draft and of its amount, has a description that, ignoring
\* case, equals or contains the description of the first draft, the second
\* draft is classified a duplicate (and so is the first).
C13_ContainedDraftDuplicate ==
    dupcheck.result # None =>
        \A i, j \in 1..Len(dupcheck.transactions) :
            LET d1 == dupcheck.transactions[i]
                d2 == dupcheck.transactions[j]
            IN (/\ Contained(d1, d2)
                /\ \E n \in 1..Len(txns) :
                      /\ Some(txns[n].account_id) = dupcheck.account_id
                      /\ txns[n].date - d1.date \in -1..1
                      /\ txns[n].amount = d1.amount
                      /\ contains(lower(txns[n].description), lower(d1.description)))
                  => /\ InSeq(d1, dupcheck.result[1].duplicates)
                     /\ InSeq(d2, dupcheck.result[1].duplicates)

\* A batch of a draft "AB" and a draft "a" of the same date and amount was
\* checked against a row "ab" of the day after, and both are duplicates.
C13_Witness ==
    /\ dupcheck.result # None
    /\ Len(dupcheck.transactions) = 2
    /\ dupcheck.transactions[1].description = <<11, 12>>
    /\ dupcheck.transactions[2].description = <<1>>
    /\ dupcheck.transactions[1].date = 1
    /\ Contained(dupcheck.transactions[1], dupcheck.transactions[2])
    /\ \E n \in 1..Len(txns) : txns[n].account_id = 1 /\ txns[n].description = <<1, 2>>
    /\ Len(dupcheck.result[1].duplicates) = 2

\* C14: check_duplicates puts every draft of the batch, by position, in
\* exactly one of its two lists and keeps the order of the batch in each;
\* the list a draft goes to is the one it goes to when it is checked alone
\* against the same table, so equal drafts go to the same list; and the
\* call leaves the table, and everything else, as it was.
C14_CheckDuplicatesPartitions ==
    [][check_duplicates_call =>
         LET t == dupcheck.transactions
             r == dupcheck'.result[1]
             alone(d) == check_duplicates(txns, dupcheck.account_id, <<d>>)
         IN /\ \E f \in [1..Len(t) -> BOOLEAN] :
                  /\ r.duplicates = Kept(t, f, TRUE, 1)
                  /\ r.new = Kept(t, f, FALSE, 1)
                  /\ \A i \in 1..Len(t) :
                        /\ f[i] => alone(t[i]) = [duplicates |-> <<t[i]>>, new |-> <<>>]
                        /\ ~f[i] => alone(t[i]) = [duplicates |-> <<>>, new |-> <<t[i]>>]
                  /\ \A i, j \in 1..Len(t) : t[i] = t[j] => f[i] = f[j]
            /\ Len(r.duplicates) + Len(r.new) = Len(t)
            /\ txns' = txns
            /\ UNCHANGED <<pipeline, rules, flow, aicall, matchcall, parsecall, reruns>>]_vars

\* A batch of two equal drafts that match nothing in a table that has rows
\* came back with both drafts new; so did nothing but the result change.
C14_Witness ==
    /\ dupcheck.result # None
    /\ Len(dupcheck.transactions) = 2
    /\ dupcheck.transactions[1] = dupcheck.transactions[2]
    /\ dupcheck.result[1].new = dupcheck.transactions
    /\ dupcheck.result[1].duplicates = <<>>
    /\ Len(txns) = MaxStoreRows

\* A result of the run that the completion service produced: its
\* transaction was among those sent.
AiTier(result) ==
    flow.sent # None /\ \E k \in 1..Len(flow.sent[1]) : flow.sent[1][k].id = result.id

\* C15: save_categorizations creates one categorization rule for every
\* result of the AI tier whose confidence is above 0.9, and no other rule.
C15_RuleIffConfidentAiResult ==
    [][save_categorizations_task =>
         Len(rules') = Len(rules) +
            Cardinality({i \in 1..Len(flow.results) :
                            AiTier(flow.results[i]) /\ flow.results[i].confidence > 90})]_vars

\* The table has a rule for the merchant of the transaction with a
\* confidence above 0.8.
HasRule(txn) ==
    \E n \in 1..Len(rules) :
        /\ rules[n].pattern_value = txn.merchant_name
        /\ rules[n].confidence_score > 80

\* C16: once categorize_batch has returned, a transaction of the batch has a
\* result of method "rule" exactly when a rule above 0.8 matches it; such a
\* transaction was not sent to the completion service and every other
\* transaction was.
C16_RuleTierResolves ==
    flow.pc \in {"save", "done"} =>
        \A i \in 1..Len(flow.batch) :
            LET txn == flow.batch[i]
                by_rule_tier == \E k \in 1..Len(flow.results) :
                                   /\ flow.results[k].id = txn.id
                                   /\ flow.results[k].method = Some("rule")
                was_sent == flow.sent # None /\ InSeq(txn, flow.sent[1])
            IN /\ by_rule_tier <=> HasRule(txn)
               /\ was_sent <=> ~HasRule(txn)

\* C17: once categorize_batch has returned, the usage count of every rule
\* is the number of transactions of the batch it applies to (rules start
\* unused), and a rule that applied has its last use recorded.
C17_UsageCountsFirings ==
    flow.pc \in {"save", "done"} =>
        \A n \in 1..Len(rules) :
            LET fired == {i \in 1..Len(flow.batch) :
                            /\ rules[n].pattern_value = flow.batch[i].merchant_name
                            /\ rules[n].confidence_score > 80}
            IN /\ rules[n].usage_count = Cardinality(fired)
               /\ fired # {} => rules[n].last_used_at # None

\* C18: categorize_transactions_batch returns, whatever the completion
\* service did; the transactions of a batch whose completion call raised or
\* did not answer JSON come back with category Other and confidence 0.0,
\* and the transactions of every other batch with the categories the
\* completion service gave them.
C18_FailedBatchDegradesAlone ==
    aicall.result # None =>
        /\ aicall.result[1].raise = None
        /\ Len(aicall.result[1].value) = Len(aicall.transactions)
        /\ \A b \in 1..NumBatches(aicall.transactions) :
              LET batch == BatchOf(aicall.transactions, b)
              IN \A i \in 1..Len(batch) :
                    aicall.result[1].value[(b - 1) * batch_size + i] =
                        IF aicall.answers[b].kind = "json"
                        THEN aicall.answers[b].value[i]
                        ELSE Categorized(batch[i], "Other", 0)

\* The job was suspended with the parsed content of a CSV file.
Tabular(j) ==
    /\ jobs[j].meta["parsed_content"] # None
    /\ jobs[j].meta["parsed_content"][1].format_type = "csv"

\* C19: every draft of a CSV job that is handed to the duplicate check, and
\* every transaction such a job persists, carries a category.
C19_TabularDraftsCategorized ==
    /\ \A k \in ContIds :
          (conts[k].pc = "save" /\ Tabular(conts[k].job)) =>
             \A i \in 1..Len(conts[k].transactions) :
                conts[k].transactions[i].category # None
    /\ \A n \in 1..Len(txns) :
          (txns[n].job # 0 /\ Tabular(txns[n].job)) => txns[n].category # None

\* C20: no job fails in the Analyzing stage: process_statement never returns
\* a failed status with the progress (30) it sets when it enters that stage,
\* and no job record is failed with that progress.
C20_AnalysisFailureNeverFails ==
    \A j \in JobIds :
        /\ ~(tasks[j].status.stage = FAILED /\ tasks[j].status.progress = 30)
        /\ ~(jobs[j].stage = FAILED /\ jobs[j].progress = 30)

\* The value of a metadata key that is set to a non-empty string, else None.
Known(m, key) == IF key \in DOMAIN m /\ TruthyStr(m[key]) THEN m[key] ELSE None

\* The accounts of the list whose institution, account type and last-4 all
\* equal those of the metadata, all three being known.
ExactCandidates(m, l) ==
    {i \in 1..Len(l) :
        /\ Known(m, "institution") # None
        /\ Known(m, "account_type") # None
        /\ Known(m, "account_number_last4") # None
        /\ l[i].institution = m["institution"]
        /\ Some(l[i].account_type) = m["account_type"]
        /\ l[i].account_number_last4 = m["account_number_last4"]}

\* C21: for metadata whose institution, account type and last-4 all equal
\* those of an account of the list, suggest_account_match returns that
\* account with confidence 1.0 and should_create_new false, whatever the
\* completion service did.
C21_ExactMatchReturned ==
    (matchcall.result # None
        /\ ExactCandidates(matchcall.statement_metadata, matchcall.user_accounts) # {}) =>
       /\ matchcall.result[1].raise = None
       /\ \E i \in ExactCandidates(matchcall.statement_metadata, matchcall.user_accounts) :
             matchcall.result[1].value.suggested_account_id =
                 Some(matchcall.user_accounts[i].id)
       /\ matchcall.result[1].value.confidence = 100
       /\ ~matchcall.result[1].value.should_create_new

\* The tier of the pure tier logic an account falls in for the metadata:
\* 100 for institution + account type + last-4, 80 for institution +
\* account type, 50 for the account type alone, 0 for none.
Tier(m, a) ==
    LET inst == Known(m, "institution") # None /\ a.institution = m["institution"]
        type == Known(m, "account_type") # None /\ Some(a.account_type) = m["account_type"]
        last4 == Known(m, "account_number_last4") # None
                    /\ a.account_number_last4 = m["account_number_last4"]
    IN IF inst /\ type /\ last4 THEN 100
       ELSE IF inst /\ type THEN 80
       ELSE IF type THEN 50
       ELSE 0

\* The best tier any account of the list falls in.
BestTier(m, l) ==
    IF \E i \in 1..Len(l) : Tier(m, l[i]) = 100 THEN 100
    ELSE IF \E i \in 1..Len(l) : Tier(m, l[i]) = 80 THEN 80
    ELSE IF \E i \in 1..Len(l) : Tier(m, l[i]) = 50 THEN 50
    ELSE 0

\* C22: when the completion service raised or its answer is not JSON,
\* suggest_account_match returns the decision of the pure tier logic: an
\* account of the best tier (none when no account is in any tier), the
\* confidence of that tier, and should_create_new exactly when that
\* confidence is below 0.7 or the list is empty.
C22_FallbackIsTierLogic ==
    (matchcall.result # None /\ matchcall.answer[1].kind \in {"raise", "text"}) =>
       LET m == matchcall.statement_metadata
           l == matchcall.user_accounts
           best == BestTier(m, l)
       IN /\ matchcall.result[1].raise = None
          /\ matchcall.result[1].value.confidence = best
          /\ IF best = 0
             THEN matchcall.result[1].value.suggested_account_id = None
             ELSE \E i \in 1..Len(l) :
                     /\ Tier(m, l[i]) = best
                     /\ matchcall.result[1].value.suggested_account_id = Some(l[i].id)
          /\ matchcall.result[1].value.should_create_new <=> (best < 70 \/ l = <<>>)

\* C23: every suggestion suggest_account_match returns whose confidence is
\* below 0.7, or that was made for an empty account list, has
\* should_create_new true and a suggested name; when the metadata holds the
\* institution and the account type, the name is "{institution} {Account
\* Type}", with " (...{last4})" appended when the last-4 is known.
C23_LowConfidenceCreatesNew ==
    (matchcall.result # None /\ matchcall.result[1].raise = None) =>
       LET m == matchcall.statement_metadata
           v == matchcall.result[1].value
       IN (v.confidence < 70 \/ matchcall.user_accounts = <<>>) =>
             /\ v.should_create_new
             /\ v.suggested_account_name # None
             /\ (Known(m, "institution") # None /\ Known(m, "account_type") # None) =>
                   v.suggested_account_name[1] =
                       <<m["institution"][1], " ", title(m["account_type"][1])>> \o
                       (IF Known(m, "account_number_last4") # None
                        THEN <<" (...", m["account_number_last4"][1], ")">> ELSE <<>>)

\* The values a row holds under the columns called key that parse with f.
Parsed(columns, row, key, f(_)) ==
    {f(row[i][1])[1] : i \in {k \in 1..Len(columns) :
                                 columns[k] = key /\ row[k] # None /\ f(row[k][1]) # None}}

\* C24: for a file with a date and an amount column, parse_csv_file returns
\* one transaction, in the order of the file, for each data row that holds a
\* date and an amount that parse, with that date and that amount, and
\* nothing for any other row.
C24_OneDraftPerParseableRow ==
    LET file == parsecall.file[1]
        columns == normalize_column_names(file.columns)
        kept == SelectSeq(file.rows, LAMBDA row :
                    /\ Parsed(columns, row, "date", parse_date) # {}
                    /\ Parsed(columns, row, "amount", parse_amount) # {})
    IN (parsecall.result # None /\ InSeq("date", columns) /\ InSeq("amount", columns)) =>
          /\ parsecall.result[1].raise = None
          /\ Len(parsecall.result[1].value) = Len(kept)
          /\ \A n \in 1..Len(kept) :
                /\ parsecall.result[1].value[n].date \in
                      Parsed(columns, kept[n], "date", parse_date)
                /\ parsecall.result[1].value[n].amount \in
                      Parsed(columns, kept[n], "amount", parse_amount)

\* C25: an upload that is rejected for its type or its size is answered
\* with a 400 and creates no job record, writes no file and starts no task;
\* every job record has a file that passed both checks written for it and a
\* task started for it.
C25_RejectedUploadCreatesNothing ==
    [][/\ \A u \in Uploaders, f \in UploadFiles :
            ((f.file_type \notin {"csv", "pdf"} \/ ~f.size_ok) /\ upload_statement(u, f)) =>
               /\ upload_response(f) = 400
               /\ UNCHANGED <<jobs, disk, tasks>>
               /\ UNCHANGED vars
       /\ Len(jobs') = Len(disk') /\ Len(jobs') = Len(tasks')
       /\ \A j \in (Len(jobs) + 1)..Len(jobs') :
             /\ disk'[j] # None
             /\ upload_response(disk'[j][1]) = 200
             /\ tasks'[j].pc = "process"]_vars

\* One upload was accepted and another upload, of an unsupported type or
\* too large, can still be sent.
C25_Witness ==
    /\ Len(jobs) = 1
    /\ Len(jobs) < MaxJobs
    /\ \E f \in UploadFiles : f.file_type \notin {"csv", "pdf"} /\ upload_response(f) = 400
    /\ \E f \in UploadFiles : ~f.size_ok /\ upload_response(f) = 400

\* C26: when the first half is run for a job whose stage on record is past
\* awaiting_confirmation (extracting_transactions .. completed),
\* process_statement returns without a result of parsing, analysis or
\* matching, and the write-back of its task leaves the stage on record
\* where it is or ahead of it.
C26_RerunFirstHalfNoOp ==
    [][\A j \in JobIds :
         StageOrder(jobs[j].stage) \in 5..8 =>
            /\ (tasks[j].pc = "process" /\ tasks'[j].pc = "writeback") =>
                  /\ tasks'[j].status.metadata = EmptyMeta
                  /\ tasks'[j].status.stage # FAILED
            /\ (tasks[j].pc = "writeback" /\ tasks'[j].pc = "done") =>
                  StageOrder(jobs'[j].stage) >= StageOrder(jobs[j].stage)]_vars

\* The payload holds parsed content, statement metadata, account match and
\* file path.
FullPayload(meta) == \A key \in MetaKeys : meta[key] # None

Finalized(c) ==
    IF c.create_new_account /\ c.new_account_data # None
    THEN Some(Len(accounts) + 1) ELSE c.account_id

\* A step in which every continuation makes its duplicate check against its
\* finalized account and stores every row it saves under that account.
UsesFinalizedAccount ==
    (\A k \in ContIds :
         /\ (conts[k].pc = "check" /\ conts'[k].pc = "save") =>
               /\ conts'[k].account_id = Finalized(conts[k])
               /\ conts'[k].new_transactions =
                     check_duplicates(txns, Finalized(conts[k]),
                                      conts'[k].transactions).new
         /\ (conts[k].pc = "save" /\ conts'[k].pc = "writeback") =>
               \A n \in (Len(txns) + 1)..Len(txns') :
                   /\ txns'[n].job = conts[k].job
                   /\ Some(txns'[n].account_id) = conts[k].account_id)

\* C28: all transactions a job persists are stored under one account, the
\* one finalized at its confirmation, against which its duplicate check
\* was made.
C28_JobUsesFinalizedAccount ==
    [][/\ UsesFinalizedAccount
       /\ \A n, m \in 1..Len(txns') :
             (txns'[n].job # 0 /\ txns'[n].job = txns'[m].job) =>
                 txns'[n].account_id = txns'[m].account_id]_vars

\* Job j has been created.
Created(j) == j \in JobIds

\* C29: with the event loop running every ready task, a job created in
\* uploading gets to awaiting_confirmation or failed on record; a job with
\* an accepted confirm_account call gets to completed or failed; and no job
\* record
\* stays for ever in parsing, analyzing, matching_account,
\* extracting_transactions, checking_duplicates or saving.
C29_JobsReachRestingStage ==
    \A j \in 1..MaxJobs :
        /\ (Created(j) /\ jobs[j].stage = UPLOADING) ~>
              (Created(j) /\ jobs[j].stage \in {AWAITING_CONFIRMATION, FAILED})
        /\ (Created(j) /\ ContsOf(j) # {}) ~>
              (Created(j) /\ jobs[j].stage \in {COMPLETED, FAILED})
        /\ ~<>[](Created(j) /\ jobs[j].stage \in
                    {PARSING, ANALYZING, MATCHING_ACCOUNT, EXTRACTING_TRANSACTIONS,
                     CHECKING_DUPLICATES, SAVING})

\* The step is one of job i: its first task moves, or a confirmation of it
\* is accepted or moves.
StepOf(i) ==
    \/ tasks'[i] # tasks[i]
    \/ \E k \in 1..Len(conts') :
          /\ conts'[k].job = i
          /\ k \in ContIds => conts'[k] # conts[k]

\* C30: a step of one job (a stage written, a confirmation, a failure, a
\* completion) leaves the record of every other job as it was; a record
\* changes only in a step of its own job, and an upload adds a record
\* without touching those there.
C30_OtherJobRecordsUnchanged ==
    [][/\ Len(jobs') >= Len(jobs)
       /\ \A i \in JobIds :
             /\ StepOf(i) => \A o \in JobIds \ {i} : jobs'[o] = jobs[o]
             /\ jobs'[i] # jobs[i] => StepOf(i)]_vars

\* Two jobs side by side: one has been confirmed and written to its end, the
\* other still waits for its confirmation with its payload in place.
C30_Witness ==
    \E i, o \in JobIds :
        /\ i # o
        /\ jobs[i].stage \in {COMPLETED, FAILED}
        /\ ContsOf(i) # {}
        /\ \A k \in ContsOf(i) : conts[k].pc = "done"
        /\ jobs[o].stage = AWAITING_CONFIRMATION
        /\ ContsOf(o) = {}

\* The sequences of ss one after the other.
RECURSIVE Flatten(_)
Flatten(ss) == IF ss = <<>> THEN <<>> ELSE Head(ss) \o Flatten(Tail(ss))

\* The slices cut the list up: none is empty or longer than batch_size, all
\* but the last are full, and in order they make up the list.
CutsUp(slices, list) ==
    /\ \A b \in 1..Len(slices) :
          /\ Len(slices[b]) \in 1..batch_size
          /\ b < Len(slices) => Len(slices[b]) = batch_size
    /\ Flatten(slices) = list

\* C31: the prompts of categorize_transactions_batch carry the slices of its
\* input, and categorization_flow hands the same slices of its list to
\* categorize_batch, which sends on no more than it was handed: at most
\* batch_size transactions each, every transaction in exactly one slice, in
\* input order, only the last slice short.
C31_BatchesPartitionInput ==
    aicall.result # None =>
        LET transactions == aicall.transactions
        IN /\ Len(aicall.answers) = NumBatches(transactions)
           /\ CutsUp([b \in 1..NumBatches(transactions) |-> BatchOf(transactions, b)],
                     transactions)
           /\ CutsUp(batches(transactions), transactions)
           /\ \A b \in 1..Len(batches(transactions)) :
                 /\ Len(needs_ai(batches(transactions)[b])) <= batch_size
                 /\ contains(transactions, needs_ai(batches(transactions)[b]))

\* A call on three transactions: a full slice and a short last one.
C31_Witness ==
    /\ aicall.result # None
    /\ Len(aicall.transactions) = 3
    /\ NumBatches(aicall.transactions) = 2
    /\ Len(BatchOf(aicall.transactions, 2)) = 1
    /\ aicall.result[1].raise = None

\* The progress values a stage goes with.
Checkpoints(stage) ==
    CASE stage = UPLOADING -> {0}
      [] stage = PARSING -> 10..25
      [] stage = ANALYZING -> 30..40
      [] stage = MATCHING_ACCOUNT -> 45..55
      [] stage = AWAITING_CONFIRMATION -> {60}
      [] stage = EXTRACTING_TRANSACTIONS -> 65..75
      [] stage = CHECKING_DUPLICATES -> 80..85
      [] stage = SAVING -> {90}
      [] stage = COMPLETED -> {100}
      [] OTHER -> 0..100

\* C32: the progress on record is one of the checkpoints of the stage on
\* record: within 0..100, 60 at awaiting_confirmation, 100 exactly at
\* completed; and a write lowers it only when it writes failed.
C32_ProgressAtCheckpoints ==
    [][\A j \in 1..Len(jobs') :
          /\ jobs'[j].progress \in 0..100
          /\ jobs'[j].progress \in Checkpoints(jobs'[j].stage)
          /\ jobs'[j].stage = AWAITING_CONFIRMATION => jobs'[j].progress = 60
          /\ jobs'[j].progress = 100 <=> jobs'[j].stage = COMPLETED
          /\ (j \in JobIds /\ jobs'[j].progress < jobs[j].progress) =>
                jobs'[j].stage = FAILED]_vars

\* C33: to a caller who is not the owner of a job, get_processing_status
\* and confirm_account answer 404, as they do for an id no job has, with no
\* field of the job in the answer; the call starts no continuation and
\* leaves the job records, and everything else, as they were.
C33_OnlyOwnerSeesAndConfirms ==
    /\ [](\A j \in JobIds : \A u \in Users \ {jobs[j].user_id} :
             /\ get_job(j, u) = None
             /\ status_response(j, u) = [code |-> 404]
             /\ status_response(j, u) = status_response(UnknownJob, u)
             /\ confirm_response(j, u) = 404
             /\ confirm_response(j, u) = confirm_response(UnknownJob, u))
    /\ [][\A j \in JobIds : \A u \in Users \ {jobs[j].user_id} :
             /\ get_processing_status(j, u) => UNCHANGED vars
             /\ \A r \in ConfirmRequests :
                   confirm_account(j, u, r) =>
                       /\ conts' = conts
                       /\ jobs' = jobs
                       /\ UNCHANGED vars]_vars

\* A job that awaits confirmation: its owner's confirm_account would be
\* accepted, another user's call is answered 404, and a call can be made.
C33_Witness ==
    \E j \in JobIds, u \in Users :
        /\ u # jobs[j].user_id
        /\ jobs[j].stage = AWAITING_CONFIRMATION
        /\ jobs[j].meta["account_match"] # None
        /\ confirm_response(j, jobs[j].user_id) = 200
        /\ confirm_response(j, u) = 404
        /\ Len(conts) < MaxConfirms

\* C34: every row a job wrote is stored under an account of the user who
\* owns the job: confirming with the id of another user's account puts no
\* row into that account.
C34_RowsUnderOwnersAccount ==
    \A n \in 1..Len(txns) :
        txns[n].job \in JobIds =>
            /\ txns[n].account_id \in 1..Len(accounts)
            /\ accounts[txns[n].account_id].user_id = jobs[txns[n].job].user_id

\* The rows of the table that job j wrote, as drafts, in the order written.
DraftsOf(store, j) ==
    LET rows == SelectSeq(store, LAMBDA e : e.job = j)
    IN [n \in 1..Len(rows) |->
          [date |-> rows[n].date, amount |-> rows[n].amount,
           description |-> rows[n].description,
           merchant_name |-> rows[n].merchant_name, category |-> rows[n].category]]

\* The step in which continuation k saves and completes.
Completes(k) ==
    /\ conts[k].pc = "save"
    /\ conts'[k].pc = "writeback"
    /\ conts'[k].status.stage = COMPLETED

\* What a completing continuation reports and writes: imported plus skipped
\* is extracted, and the rows it adds are the new part of its check.
CountsBalance(k) ==
    LET c == conts[k]
    IN /\ Len(c.new_transactions) + Len(c.duplicates) = Len(c.transactions)
       /\ DraftsOf(txns', c.job) = DraftsOf(txns, c.job) \o c.new_transactions

\* C35: when a job completes, imported plus skipped is extracted, the
\* drafts the job has in the table are exactly the new part of the duplicate
\* check, and none of them is a draft that check classified as a duplicate.
C35_CountsBalanceOnCompleted ==
    [][\A k \in ContIds :
          Completes(k) =>
              /\ CountsBalance(k)
              /\ DraftsOf(txns', conts[k].job) = conts[k].new_transactions
              /\ \A d \in 1..Len(conts[k].duplicates) :
                    ~InSeq(conts[k].duplicates[d], DraftsOf(txns', conts[k].job))]_vars

\* update_job with these arguments leaves alone every job but job_id, and
\* of that job every one of the five fields whose argument is left out or
\* empty; a field whose argument is given takes it; a payload key takes the
\* value given for it and keeps its own when none is given; an error
\* message on record stays on record.
ArgumentFrame(job_id, status, stage, progress, error_message, metadata) ==
    LET new == update_job_by_id(jobs, job_id, status, stage, progress,
                                error_message, metadata)
    IN /\ DOMAIN new = DOMAIN jobs
       /\ \A o \in JobIds \ {job_id} : new[o] = jobs[o]
       /\ job_id \notin JobIds => new = jobs
       /\ job_id \in JobIds =>
             LET old == jobs[job_id]
                 job == new[job_id]
             IN /\ job.user_id = old.user_id
                /\ job.status = IF TruthyStr(status) THEN status[1] ELSE old.status
                /\ job.stage = IF TruthyStr(stage) THEN stage[1] ELSE old.stage
                /\ job.progress = IF progress # None THEN progress[1] ELSE old.progress
                /\ job.error_message =
                      IF TruthyStr(error_message) THEN error_message
                      ELSE old.error_message
                /\ old.error_message # None => job.error_message # None
                /\ \A k \in MetaKeys :
                      job.meta[k] = IF metadata[k] # None THEN metadata[k]
                                    ELSE old.meta[k]

\* C36 as stated: update_job changes only the fields whose argument is
\* given and not empty; completed_at, which has no argument, is among the
\* fields it leaves alone.
C36_OnlySuppliedFieldsChange ==
    \A job_id \in {1, UnknownJob}, status \in StatusArgs, stage \in StageArgs,
       progress \in ProgressArgs, error_message \in ErrorArgs,
       metadata \in MetadataArgs :
        /\ ArgumentFrame(job_id, status, stage, progress, error_message, metadata)
        /\ job_id \in JobIds =>
              update_job_by_id(jobs, job_id, status, stage, progress, error_message,
                               metadata)[job_id].completed_at
                  = jobs[job_id].completed_at

\* C36, amended: update_job changes only the fields whose argument is given
\* and not empty, and completed_at, which it sets whenever the status given
\* is completed or failed and leaves alone otherwise.
C36_SuppliedFieldsAndCompletedAt ==
    \A job_id \in {1, UnknownJob}, status \in StatusArgs, stage \in StageArgs,
       progress \in ProgressArgs, error_message \in ErrorArgs,
       metadata \in MetadataArgs :
        /\ ArgumentFrame(job_id, status, stage, progress, error_message, metadata)
        /\ job_id \in JobIds =>
              update_job_by_id(jobs, job_id, status, stage, progress, error_message,
                               metadata)[job_id].completed_at
                  = IF status \in {Some(COMPLETED), Some(FAILED)} THEN TRUE
                    ELSE jobs[job_id].completed_at

\* A job that failed with a message and was then set running again, with a
\* payload put together by two calls; the other job is as it was created.
C36_Witness ==
    /\ jobs[1].status = "running"
    /\ jobs[1].completed_at
    /\ jobs[1].error_message = Some("boom")
    /\ jobs[1].meta["file_path"] = Some(2)
    /\ jobs[1].meta["statement_metadata"] = Some("parsed")
    /\ jobs[1].meta["account_match"] = None
    /\ jobs[2] = create_job("u2")

\* A persisted row of the account dated within a day of the draft, of the
\* draft's amount.
NearRows(store, account_id, d) ==
    {n \in 1..Len(store) :
        /\ Some(store[n].account_id) = account_id
        /\ store[n].date - d.date \in -1..1
        /\ store[n].amount = d.amount}

\* C37: a draft with an empty description is classified as a duplicate
\* whenever the account has a persisted row dated within a day of it with
\* the same amount, whatever the description and the merchant of that row.
C37_EmptyDescriptionMatchesAnyRow ==
    dupcheck.result # None =>
        \A i \in 1..Len(dupcheck.transactions) :
            LET d == dupcheck.transactions[i]
            IN (d.description = <<>> /\ NearRows(txns, dupcheck.account_id, d) # {}) =>
                  /\ is_duplicate(txns, dupcheck.account_id, d)
                  /\ InSeq(d, dupcheck.result[1].duplicates)
                  /\ ~InSeq(d, dupcheck.result[1].new)

\* A draft without description and without merchant, classified against a
\* row a day later whose description is "B" and whose merchant is "c".
C37_Witness ==
    /\ dupcheck.result # None
    /\ \E i \in 1..Len(dupcheck.transactions), n \in 1..Len(txns) :
          LET d == dupcheck.transactions[i]
          IN /\ d.description = <<>>
             /\ d.merchant_name = <<>>
             /\ n \in NearRows(txns, dupcheck.account_id, d)
             /\ NearRows(txns, dupcheck.account_id, d) = {n}
             /\ txns[n].date = d.date + 1
             /\ txns[n].description = <<12>>
             /\ txns[n].merchant_name = <<3>>
             /\ InSeq(d, dupcheck.result[1].duplicates)

\* C38: when categorize_transactions_batch returns, it returns one record
\* for each input transaction, in input order, each the transaction it
\* stands for with a category: no answer of the completion service that
\* parses makes a transaction go missing, come twice or be replaced.
C38_OneRecordPerTransaction ==
    (aicall.result # None /\ aicall.result[1].raise = None) =>
        LET transactions == aicall.transactions
            all_categorized == aicall.result[1].value
        IN /\ Len(all_categorized) = Len(transactions)
           /\ \A i \in 1..Len(transactions) :
                 /\ i <= Len(all_categorized)
                 /\ all_categorized[i].date = transactions[i].date
                 /\ all_categorized[i].amount = transactions[i].amount
                 /\ all_categorized[i].description = transactions[i].description
                 /\ all_categorized[i].merchant_name = transactions[i].merchant_name

\* The request of continuation c names no account that exists and asks for
\* none to be created under a name.
NoUsableTarget(c) ==
    /\ c.pc # "done"
    /\ ~(c.create_new_account /\ c.new_account_data # None)
    /\ c.account_id = None \/ c.account_id[1] \notin 1..Len(accounts)

\* C39: a confirm_account call without a usable target is accepted for a
\* job that awaits confirmation; from then on the job is never completed
\* and has no row in the table, and when the continuation has run, the job
\* is on record as failed, the failure being that of the saving stage
\* (progress 90).
C39_NoTargetFailsAtSaving ==
    [][/\ \A j \in JobIds, u \in Users, r \in ConfirmRequests :
            (/\ r \in {Confirm(None, TRUE, None), Confirm(Some(0), FALSE, None)}
             /\ jobs[j].stage = AWAITING_CONFIRMATION
             /\ jobs[j].user_id = u) => confirm_response(j, u) = 200
       /\ \A k \in ContIds :
            NoUsableTarget(conts[k]) =>
                /\ jobs'[conts[k].job].stage # COMPLETED
                /\ \A n \in 1..Len(txns') : txns'[n].job # conts[k].job
                /\ conts'[k].pc = "done" =>
                      /\ conts[k].status.stage = FAILED
                      /\ conts[k].status.progress = 90
                      /\ jobs'[conts[k].job].stage = FAILED]_vars
====
